---- MODULE Spec2Model ----
(***************************************************************************)
(* clai: a command-line assistant.  The model covers one run of the        *)
(* ask/edit command: prompt acquisition, tool-server setup, the agent loop *)
(* of the three provider adapters (Anthropic, Ollama, Gemini), session     *)
(* persistence and the teardown of the tool-server connections.            *)
(*                                                                         *)
(* Encoding of data:                                                       *)
(*  - a content block is a record with a "type" field: "text", "tool_use", *)
(*    "tool_result"; a message whose content is a plain string carries one *)
(*    block of type "string";                                              *)
(*  - the Ollama reply {content, tool_calls} and the Gemini reply          *)
(*    {text, functionCalls} are written as a block sequence whose first    *)
(*    block may be the text and whose other blocks are the calls;          *)
(*  - tool input is "good" (passes the tool's zod schema) or "bad".        *)
(***************************************************************************)
EXTENDS Integers, Sequences, FiniteSets, TLC

\* ---------------------------------------------------------------- bounds
MaxTurns == 2        \* provider requests in one run; the last reply has no tool call
MaxBlocks == 2       \* content blocks in one provider reply
NumClients == 2      \* entries of clientsList

VARIABLES
    mode,               \* "ask" | "edit"
    adapter,            \* "anthropic" | "ollama" | "gemini"
    sessionArg,         \* "none" | "missing" | "invalid" | "existing" | "foreign"  (--session and its file)
    context,            \* contents of the --context files, in argument order
    cpc,                \* position of the command's action handler
    failure,            \* message of the error that reached the handler's catch; "" if none
    exit,               \* "running" | "ok" (0) | "fail" (process.exit(1)) | "crash" (unhandled rejection)
    ci,                 \* index of the client being connected or closed
    initialized,        \* clients whose initialize() succeeded
    clients,            \* getClientsAndTools' local clients array
    cleanup,            \* clients the handler's cleanup closure closes
    closeCalls,         \* number of close() calls per client
    tools,              \* the registry handed to the model, in registration order
    session,            \* what loadSession returned
    epc,                \* position of the agent loop
    messages,           \* newMessages (Anthropic, Ollama) / the chat history (Gemini)
    systemPrompts,      \* newSystemPrompts / newPrompts / systemPrompts
    response,           \* content of the latest provider reply
    idx,                \* index of the block of the reply being processed
    needsContinuation,
    toolResults,        \* ret.toolResults of handleOllamaResponse
    toSend,             \* Gemini: the parts of the next sendMessage
    inflight,           \* ids of tool invocations started and not yet settled
    started,            \* ids of the invocations started in this turn, in order
    settled,            \* outcome of every invocation settled in this run, in order
    requests,           \* number of provider requests sent
    lastRequest,        \* payload of the latest provider request
    turnStart,          \* Len(messages) when the latest provider request was sent
    turnsLog,           \* per finished provider reply: its content
    aliases,            \* the loop's arrays that are the session object's own arrays
    output,             \* what output.text received, in order
    saved,              \* content of the session file
    io                  \* prompt input and child processes: the step under way, its pending events

cmdVars == <<mode, adapter, sessionArg, context, cpc, failure, exit, ci, initialized,
             clients, cleanup, closeCalls, tools, session, saved>>
loopVars == <<epc, messages, systemPrompts, response, idx, needsContinuation, toolResults,
              toSend, inflight, started, settled, requests, lastRequest, turnStart, turnsLog,
              aliases, output>>
vars == <<cmdVars, loopVars, io>>

\* ------------------------------------------------------------ data model
\* No prompt input and no child process is under study
NoIO == [pc |-> "none"]
NoSession == [present |-> FALSE]
basePrompt == "base"
prompt == "prompt"

TextBlock(t) == [type |-> "text", text |-> t]
StringContent(t) == <<[type |-> "string", text |-> t]>>
Msg(role, content) == [role |-> role, content |-> content]
Ephemeral == [cache_control |-> "ephemeral"]

AssistantRole == IF adapter = "gemini" THEN "model" ELSE "assistant"

\* A session file written by an earlier run: one finished exchange.
StoredSession ==
    [present |-> TRUE,
     messages |-> <<Msg("user", IF adapter = "gemini" THEN <<TextBlock("p0")>>
                                                       ELSE StringContent("p0")),
                    Msg(AssistantRole, IF adapter = "ollama" THEN StringContent("a0")
                                                             ELSE <<TextBlock("a0")>>)>>,
     systemPrompts |-> <<TextBlock(basePrompt)>>]

IsToolUse(b) == b.type = "tool_use"
IsToolResult(b) == b.type = "tool_result"
ToolUses(content) == SelectSeq(content, IsToolUse)
ToolResultsOf(content) == SelectSeq(content, IsToolResult)

\* ------------------------------------------------------------------ tools
\* createBaseTools / createReadOnlyTools / createReadWriteTools
baseTools == <<"read_file", "list_dir", "grep_search">>
editTools == <<"edit_file", "build">>

\* listTools of each server; a server may advertise a name a local tool has
Advertised(c) == IF c = 1 THEN <<"definition", "references">> ELSE <<"hover", "read_file">>
readOnlyTools(c) == <<>>
readWriteTools(c) == <<>>
InSeq(x, s) == \E i \in 1..Len(s) : s[i] = x

\* getTools as it would be if an empty allow-list exposed no tool
getToolsStrict(c, allowedTools) ==
    SelectSeq(Advertised(c), LAMBDA t : InSeq(t, allowedTools))

\* MCPClient.getTools: the advertised tools admitted by the allow-list
getTools(c, allowedTools) ==
    LET Allowed(t) == Len(allowedTools) = 0 \/ InSeq(t, allowedTools)
    IN  SelectSeq(Advertised(c), Allowed)

RECURSIVE ClientTools(_, _)
ClientTools(cs, m) ==
    IF cs = <<>> THEN <<>>
    ELSE getTools(Head(cs), IF m = "ask" THEN readOnlyTools(Head(cs)) ELSE readWriteTools(Head(cs)))
         \o ClientTools(Tail(cs), m)

\* createTools as it would be if both modes registered the edit tools
createToolsWithEdit(m, cs) == baseTools \o editTools \o ClientTools(cs, m)

createTools(m, cs) ==
    IF m = "ask" THEN baseTools \o ClientTools(cs, m)
    ELSE baseTools \o editTools \o ClientTools(cs, m)

\* The tools constructed locally, ahead of the servers' tools in the registry
LocalTools(m) == IF m = "ask" THEN baseTools ELSE baseTools \o editTools

\* HasDefinition as it would be if every tool had every native definition
HasDefinitionAll(a, i) == TRUE

\* getDefinition().anthropic / .ollama / .gemini of registry entry i: the
\* local tools have an ollama definition, all but edit_file a gemini one;
\* MCPToolWrapper has neither
HasDefinition(a, i) ==
    \/ a = "anthropic"
    \/ /\ i <= Len(LocalTools(mode))
       /\ a = "gemini" => tools[i] # "edit_file"

\* The tool declarations of a request: tools.filter(definition !== undefined)
Declared(a) ==
    LET entries == SelectSeq([i \in 1..Len(tools) |-> i], LAMBDA i : HasDefinition(a, i))
    IN  [k \in 1..Len(entries) |-> tools[entries[k]]]

\* The entry's native definition carries the name
Matches(i, name) == tools[i] = name /\ HasDefinition(adapter, i)

\* Find as it would be if the latest registration of a name won
FindLast(name) ==
    IF \E i \in 1..Len(tools) : Matches(i, name)
    THEN CHOOSE i \in 1..Len(tools) :
             Matches(i, name) /\ \A j \in (i + 1)..Len(tools) : ~Matches(j, name)
    ELSE 0

\* this.tools.find((t) => t.getDefinition()....name === name): first match, 0 if absent
Find(name) ==
    IF \E i \in 1..Len(tools) : Matches(i, name)
    THEN CHOOSE i \in 1..Len(tools) :
             Matches(i, name) /\ \A j \in 1..(i - 1) : ~Matches(j, name)
    ELSE 0

\* checkParams: zod parse of the input
checkParamsThrows(input) == input = "bad"

\* describeInvocation: ReadFileTool, ListDirTool and EditFileTool validate first
describeInvocationThrows(name, input) ==
    name \in {"read_file", "list_dir", "edit_file"} /\ checkParamsThrows(input)

InvalidParams == "invalid params"
Ok(content, system) == [ok |-> TRUE, content |-> content, system |-> system]
Thrown(msg) == [ok |-> FALSE, content |-> msg, system |-> ""]

\* invoke: the outcomes the tool can settle with ("" = no system text)
invoke(name, input) ==
    IF name = "read_file"
    THEN IF checkParamsThrows(input) THEN {Thrown(InvalidParams)}
         ELSE {Ok("File read successfully", "file contents"), Thrown("Access denied")}
    ELSE IF checkParamsThrows(input) THEN {Thrown("Failed to search")}
         ELSE {Ok("matches", ""), Thrown("Failed to search")}

\* ------------------------------------------------------- provider replies
CallKinds == {<<"read_file", "good">>, <<"read_file", "bad">>,
              <<"grep_search", "bad">>, <<"nosuch", "good">>}
BlockKinds == {[type |-> "text"]} \cup {[type |-> "tool_use", name |-> k[1], input |-> k[2]] : k \in CallKinds}
TextOf(i) == IF i = 1 THEN "t1" ELSE IF i = 2 THEN "t2" ELSE IF i = 3 THEN "t3" ELSE "t4"
IdOf(n, i) == 10 * n + i

MkBlock(n, i, k) ==
    IF k.type = "text" THEN TextBlock(TextOf(i))
    ELSE [type |-> "tool_use", id |-> IdOf(n, i), name |-> k.name, input |-> k.input]

\* The replies the provider can give to request number n of adapter a.  The
\* reply to request MaxTurns asks for no tool; Ollama and Gemini replies
\* carry their text, if any, ahead of the calls.
Replies(a, n) ==
    LET Shape(f, len) ==
            /\ n >= MaxTurns => \A i \in 1..len : f[i].type = "text"
            /\ a # "anthropic" => \A i \in 2..len : f[i].type = "tool_use"
    IN  UNION { { [i \in 1..len |-> MkBlock(n, i, f[i])] :
                    f \in {g \in [1..len -> BlockKinds] : Shape(g, len)} } :
                len \in 0..MaxBlocks }

\* ---------------------------------------------------------- cache markers
StripPrompt(p) == [type |-> p.type, text |-> p.text]

\* AnthropicModel.createMessageFromHistory: processedSystemPrompts
processedSystemPrompts(sp) ==
    [i \in 1..Len(sp) |-> IF i = Len(sp) THEN StripPrompt(sp[i]) @@ Ephemeral
                          ELSE StripPrompt(sp[i])]

\* AnthropicModel.applyCachingStrategy
applyCachingStrategy(ms) ==
    IF Len(ms) = 0 THEN ms
    ELSE LET lastMessage == ms[Len(ms)]
             content == IF lastMessage.content # <<>> /\ lastMessage.content[1].type = "string"
                        THEN <<TextBlock(lastMessage.content[1].text)>>
                        ELSE lastMessage.content
         IN  IF lastMessage.role # "user" THEN ms
             ELSE IF Len(content) > 0
                  THEN [ms EXCEPT ![Len(ms)] =
                          Msg("user", [content EXCEPT ![Len(content)] = Ephemeral @@ @])]
                  ELSE [ms EXCEPT ![Len(ms)] = Msg("user", content)]

\* AnthropicModel.stripCacheControlMarkers
stripCacheControlMarkers(result) ==
    LET CleanBlock(b) == IF b.type = "text" THEN TextBlock(b.text) ELSE b
        CleanMsg(m) == IF m.content # <<>> /\ m.content[1].type = "string" THEN m
                       ELSE Msg(m.role, [i \in 1..Len(m.content) |-> CleanBlock(m.content[i])])
    IN  [present |-> TRUE,
         messages |-> [i \in 1..Len(result.messages) |-> CleanMsg(result.messages[i])],
         systemPrompts |-> [i \in 1..Len(result.systemPrompts) |->
                               StripPrompt(result.systemPrompts[i])]]

\* ------------------------------------------------------ the session file
\* A file is absent, holds text that is no JSON, or holds the text of a JSON
\* value; a session is written as {state: {messages, systemPrompts}}.
NoFile == [exists |-> FALSE]
Garbage == [exists |-> TRUE, json |-> FALSE]
JSON_stringify(value) == [exists |-> TRUE, json |-> TRUE, value |-> value]

\* JSON.parse: the value, or a SyntaxError
JSON_parse(file) == IF file.json THEN [ok |-> TRUE, value |-> file.value] ELSE [ok |-> FALSE]

StateOf(s) == [state |-> [messages |-> s.messages, systemPrompts |-> s.systemPrompts]]

\* z.object: the named keys are required unless optional, other keys are dropped
Has(r, keys) == keys \subseteq DOMAIN r
Keep(r, keys) == [k \in DOMAIN r \cap keys |-> r[k]]

\* role: z.union of the literals of the adapter's schema
Roles(a) ==
    IF a = "anthropic" THEN {"user", "assistant"}
    ELSE IF a = "ollama" THEN {"user", "assistant", "system"}
    ELSE {"user", "model", "system"}

\* The keys a block must have, and those the schema keeps.  Ollama's content
\* is a string: of an assistant reply only the text is named by the schema.
BlockRequired(a, b) ==
    IF b.type \in {"string", "text"} THEN {"type", "text"}
    ELSE IF b.type = "tool_use" THEN (IF a = "anthropic" THEN {"type", "id", "name", "input"}
                                     ELSE {"type", "name"})
    ELSE IF a = "anthropic" THEN {"type", "tool_use_id", "content"}
    ELSE {"type", "content", "is_error"}
BlockKept(a, b) ==
    IF b.type \in {"string", "text"} THEN {"type", "text"}
    ELSE IF b.type = "tool_use" THEN {"type", "id", "name", "input"}
    ELSE IF a = "anthropic" THEN {"type", "tool_use_id", "content", "is_error"}
    ELSE {"type", "tool_use_id", "name", "content", "is_error"}
BlockOk(a, b) ==
    /\ "type" \in DOMAIN b
    /\ b.type \in {"string", "text", "tool_use", "tool_result"}
    /\ Has(b, BlockRequired(a, b))

ContentData(a, content) ==
    LET named == IF a = "ollama"
                 THEN SelectSeq(content, LAMBDA b : b.type \in {"string", "text"})
                 ELSE content
    IN  [j \in 1..Len(named) |-> Keep(named[j], BlockKept(a, named[j]))]

MessageOk(a, m) ==
    /\ Has(m, {"role", "content"})
    /\ m.role \in Roles(a)
    /\ \A j \in 1..Len(m.content) : BlockOk(a, m.content[j])

PromptOk(p) == Has(p, {"type", "text"}) /\ p.type = "text"
PromptKept(a) == IF a = "anthropic" THEN {"type", "text", "cache_control"} ELSE {"type", "text"}

\* safeParse as it would be if the schema objects let unknown keys through
safeParsePassthrough(a, value) ==
    [success |-> TRUE,
     data |-> [present |-> TRUE, messages |-> value.state.messages,
               systemPrompts |-> value.state.systemPrompts]]

\* MessageResultSchema.safeParse and its Ollama and Gemini counterparts
safeParse(a, value) ==
    IF /\ Has(value, {"state"})
       /\ Has(value.state, {"messages", "systemPrompts"})
       /\ \A i \in 1..Len(value.state.messages) : MessageOk(a, value.state.messages[i])
       /\ \A i \in 1..Len(value.state.systemPrompts) : PromptOk(value.state.systemPrompts[i])
    THEN [success |-> TRUE,
          data |-> [present |-> TRUE,
                    messages |-> [i \in 1..Len(value.state.messages) |->
                                    Msg(value.state.messages[i].role,
                                        ContentData(a, value.state.messages[i].content))],
                    systemPrompts |-> [i \in 1..Len(value.state.systemPrompts) |->
                                         Keep(value.state.systemPrompts[i], PromptKept(a))]]]
    ELSE [success |-> FALSE]

\* What loadSession gives back: a session or undefined (NoSession); threw is
\* set when an error leaves loadSession
Loaded(s) == [threw |-> FALSE, session |-> s]
LoadThrew == [threw |-> TRUE, session |-> NoSession]

\* loadSession as it would be without the try block around JSON.parse
loadSessionNoTry(a, arg, file) ==
    IF arg = "none" \/ ~file.exists THEN Loaded(NoSession)
    ELSE IF ~JSON_parse(file).ok THEN LoadThrew
    ELSE Loaded(IF safeParse(a, JSON_parse(file).value).success
                THEN safeParse(a, JSON_parse(file).value).data ELSE NoSession)

\* loadSession: no path, no file, no JSON or no valid session give undefined
loadSession(a, arg, file) ==
    IF arg = "none" THEN Loaded(NoSession)
    ELSE IF ~file.exists THEN Loaded(NoSession)
    ELSE LET parsed == JSON_parse(file)
         IN  IF ~parsed.ok THEN Loaded(NoSession)
             ELSE LET parseResult == safeParse(a, parsed.value)
                  IN  IF parseResult.success THEN Loaded(parseResult.data)
                      ELSE Loaded(NoSession)

\* ------------------------------------- Model: the token-based annotator
\* The Model class that preceded AnthropicModel places its markers by an
\* estimate of the tokens sent since the last marker.  For the estimate a
\* text is known by its numbers of non-whitespace and whitespace characters;
\* the input of a tool_use block is known by its JSON text.
Text(chars, ws) == [chars |-> chars, ws |-> ws]

FirstMarkerTokens == 1024
NextMarkerTokens == 2048
MaxMarkers == 3

\* estimateTokens: text.replace(/\s+/g, '').length / 4, rounded up
estimateTokens(text) == (text.chars + 3) \div 4

HasMarker(b) == "cache_control" \in DOMAIN b
\* delete block.cache_control
Unmarked(b) == [k \in DOMAIN b \ {"cache_control"} |-> b[k]]

\* tokens the first pass adds for one block: text and tool_use blocks only
BlockTokens(b) ==
    IF b.type = "text" THEN estimateTokens(b.text)
    ELSE IF b.type = "tool_use" THEN estimateTokens(b.input)
    ELSE 0

\* string content becomes an array holding one text block
ArrayContent(m) ==
    IF m.content # <<>> /\ m.content[1].type = "string"
    THEN Msg(m.role, <<TextBlock(m.content[1].text)>>)
    ELSE m

\* The first pass from block j of message i on; acc holds cacheControlCount,
\* tokensSinceLastMarker and lastMarkerIndex (<<0, 0>> for null)
RECURSIVE CountMarkers(_, _, _, _)
CountMarkers(ms, i, j, acc) ==
    IF i > Len(ms) THEN acc
    ELSE IF j > Len(ms[i].content) THEN CountMarkers(ms, i + 1, 1, acc)
    ELSE LET b == ms[i].content[j]
         IN  CountMarkers(ms, i, j + 1,
                IF HasMarker(b)
                THEN [count |-> acc.count + 1, tokens |-> 0, last |-> <<i, j>>]
                ELSE [acc EXCEPT !.tokens = acc.tokens + BlockTokens(b)])

\* The messages with block j of message i replaced by b
SetBlock(ms, i, j, b) ==
    [x \in 1..Len(ms) |->
        IF x # i THEN ms[x]
        ELSE Msg(ms[x].role, [y \in 1..Len(ms[x].content) |->
                                 IF y = j THEN b ELSE ms[x].content[y]])]

\* The annotator with the marker limit as a parameter
Annotate(ms, limit) ==
    IF Len(ms) = 0 THEN ms
    ELSE LET pm == [i \in 1..Len(ms) |-> ArrayContent(ms[i])]
             acc == CountMarkers(pm, 1, 1, [count |-> 0, tokens |-> 0, last |-> <<0, 0>>])
             n == Len(pm)
             k == Len(pm[n].content)
             Mark(s) == SetBlock(s, n, k, Ephemeral @@ s[n].content[k])
             Unmark(s) == SetBlock(s, acc.last[1], acc.last[2],
                                   Unmarked(s[acc.last[1]].content[acc.last[2]]))
         IN  IF k = 0 THEN pm
             ELSE IF acc.count = 0 /\ acc.tokens > FirstMarkerTokens THEN Mark(pm)
             ELSE IF acc.count > 0 /\ acc.count < limit /\ acc.tokens > NextMarkerTokens
                  THEN Mark(pm)
             ELSE IF acc.count >= limit /\ acc.last # <<0, 0>> THEN Mark(Unmark(pm))
             ELSE pm

\* Model.applyCachingStrategy as it would be with a limit of four markers
Model_applyCachingStrategyFour(ms) == Annotate(ms, MaxMarkers + 1)

\* Model.applyCachingStrategy
Model_applyCachingStrategy(ms) == Annotate(ms, MaxMarkers)

\* ---------------------------------------------------------------- Init
\* The session file the run finds: written by an earlier run ("existing"),
\* or no JSON, or JSON with a message whose role the schema rejects ("invalid")
InvalidState ==
    [state |-> [messages |-> Append(StoredSession.messages, Msg("tool", StringContent("r0"))),
                systemPrompts |-> StoredSession.systemPrompts]]
\* A file the schema accepts that no run has written ("foreign"): its
\* systemPrompts array is empty
ForeignSession == [StoredSession EXCEPT !.systemPrompts = <<>>]
Files(arg) ==
    IF arg = "existing" THEN {JSON_stringify(StateOf(StoredSession))}
    ELSE IF arg = "foreign" THEN {JSON_stringify(StateOf(ForeignSession))}
    ELSE IF arg = "invalid" THEN {Garbage, JSON_stringify(InvalidState)}
    ELSE {NoFile}

Commands =={<<"ask", "anthropic">>, <<"edit", "anthropic">>,
             <<"edit", "ollama">>, <<"edit", "gemini">>}

Init ==
    /\ \E c \in Commands : mode = c[1] /\ adapter = c[2]
    /\ sessionArg \in {"none", "missing", "invalid", "existing", "foreign"}
    /\ context \in {<<>>, <<"ctx1", "ctx2">>}
    /\ cpc = "getPrompt"
    /\ failure = ""
    /\ exit = "running"
    /\ ci = 1
    /\ initialized = {}
    /\ clients = <<>>
    /\ cleanup = <<>>
    /\ closeCalls = [c \in 1..NumClients |-> 0]
    /\ tools = <<>>
    /\ session = NoSession
    /\ saved \in Files(sessionArg)
    /\ epc = "idle"
    /\ messages = <<>>
    /\ systemPrompts = <<>>
    /\ response = <<>>
    /\ idx = 1
    /\ needsContinuation = FALSE
    /\ toolResults = <<>>
    /\ toSend = <<>>
    /\ inflight = {}
    /\ started = <<>>
    /\ settled = <<>>
    /\ requests = 0
    /\ lastRequest = [messages |-> <<>>, system |-> <<>>]
    /\ turnStart = 0
    /\ turnsLog = <<>>
    /\ aliases = {}
    /\ output = <<>>
    /\ io = NoIO

\* ------------------------------------------------- the command's handler
\* A rejection inside the handler's try block reaches its catch clause.
Raise(msg) == cpc' = "catch" /\ failure' = msg

\* const prompt = await getPrompt(question)
GetPrompt ==
    /\ cpc = "getPrompt"
    /\ \/ cpc' = "initialize" /\ failure' = failure
       \/ Raise("No prompt provided via stdin, argument, or editor")
    /\ UNCHANGED <<io, mode, adapter, sessionArg, context, exit, ci, initialized, clients,
                   cleanup, closeCalls, tools, session, saved, loopVars>>

\* getClientsAndTools: await client.initialize()
Initialize ==
    /\ cpc = "initialize"
    /\ \/ cpc' = "getTools" /\ initialized' = initialized \cup {ci} /\ failure' = failure
       \/ Raise("connect failed") /\ initialized' = initialized
    /\ UNCHANGED <<io, mode, adapter, sessionArg, context, exit, ci, clients,
                   cleanup, closeCalls, tools, session, saved, loopVars>>

\* getClientsAndTools: await client.getTools(); clients.push(client); after
\* the last entry createReadOnlyTools/createReadWriteTools return and the
\* handler stores the cleanup function
GetTools ==
    /\ cpc = "getTools"
    /\ \/ /\ clients' = Append(clients, ci)
          /\ failure' = failure
          /\ IF ci < NumClients
             THEN /\ ci' = ci + 1
                  /\ cpc' = "initialize"
                  /\ UNCHANGED <<cleanup, tools>>
             ELSE /\ ci' = 1
                  /\ cpc' = "createMessage"
                  /\ cleanup' = clients'
                  /\ tools' = createTools(mode, clients')
       \/ Raise("listTools failed") /\ UNCHANGED <<ci, clients, cleanup, tools>>
    /\ UNCHANGED <<io, mode, adapter, sessionArg, context, exit, initialized,
                   closeCalls, session, saved, loopVars>>

\* catch (error) { output.error(...); process.exit(1); } -- the process ends
\* inside the catch clause, so the finally clause is not run
Catch ==
    /\ cpc = "catch"
    /\ cpc' = "exited"
    /\ exit' = "fail"
    /\ UNCHANGED <<io, mode, adapter, sessionArg, context, failure, ci, initialized, clients,
                   cleanup, closeCalls, tools, session, saved, loopVars>>

\* finally { await cleanup(); } -- createCleanupFunction: close the clients
\* one after the other; a rejecting close() rejects cleanup() and with it
\* the handler
Finally ==
    /\ cpc = "finally"
    /\ IF ci <= Len(cleanup)
       THEN /\ closeCalls' = [closeCalls EXCEPT ![cleanup[ci]] = @ + 1]
            /\ \/ ci' = ci + 1 /\ UNCHANGED <<cpc, exit, failure>>
               \/ cpc' = "exited" /\ exit' = "crash" /\ failure' = "close failed" /\ ci' = ci
       ELSE /\ cpc' = "exited"
            /\ exit' = "ok"
            /\ UNCHANGED <<closeCalls, ci, failure>>
    /\ UNCHANGED <<io, mode, adapter, sessionArg, context, initialized, clients,
                   cleanup, tools, session, saved, loopVars>>

\* ------------------------------------------------------- the agent loop
\* JavaScript arrays are shared by reference.  createMessage takes the
\* session's systemPrompts array itself unless context is added, and a
\* copy of its messages array.
createMessageAliases(sess, ctx) ==
    IF sess.present /\ Len(ctx) = 0 THEN {"systemPrompts"} ELSE {}

\* turnAliases as it would be if a turn pushed onto the arrays it was given
turnAliasesShared(a, al) == al

\* The arrays still shared once a turn has made its working lists: the
\* Anthropic and Ollama turns copy both, Gemini keeps systemPrompts
turnAliases(a, al) == IF a = "gemini" THEN al \ {"messages"} ELSE {}

\* The session object after an in-place change of the arrays named by al
SessionAfter(sess, al, ms, sp) ==
    IF ~sess.present THEN sess
    ELSE [present |-> TRUE,
          messages |-> IF "messages" \in al THEN ms ELSE sess.messages,
          systemPrompts |-> IF "systemPrompts" \in al THEN sp ELSE sess.systemPrompts]

\* InitialSystemPrompts as it would be if the context were added only to a
\* fresh session
InitialSystemPromptsFreshOnly(sess, ctx) ==
    IF sess.present THEN sess.systemPrompts
    ELSE <<TextBlock(basePrompt)>> \o [i \in 1..Len(ctx) |-> TextBlock(ctx[i])]

\* createMessage: the starting system prompts and messages
InitialSystemPrompts(sess, ctx) ==
    (IF sess.present THEN sess.systemPrompts ELSE <<TextBlock(basePrompt)>>)
    \o [i \in 1..Len(ctx) |-> TextBlock(ctx[i])]

InitialMessages(a, sess) ==
    (IF sess.present THEN sess.messages ELSE <<>>)
    \o <<Msg("user", IF a = "gemini" THEN <<TextBlock(prompt)>> ELSE StringContent(prompt))>>

\* const session = model.loadSession(...); model.createMessage({prompt, context, session})
\* up to the first provider call.  GeminiModel.createMessageFromHistory pops
\* the last message off the history and sends its parts.
CreateMessage ==
    /\ cpc = "createMessage"
    /\ LET loaded == loadSession(adapter, sessionArg, saved)
           ms == InitialMessages(adapter, loaded.session)
       IN  IF loaded.threw
           THEN /\ Raise("session error")
                /\ UNCHANGED <<session, systemPrompts, messages, toSend, epc, aliases>>
           ELSE /\ aliases' = createMessageAliases(loaded.session, context)
                /\ systemPrompts' = InitialSystemPrompts(loaded.session, context)
                /\ IF adapter = "gemini"
                   THEN messages' = SubSeq(ms, 1, Len(ms) - 1) /\ toSend' = ms[Len(ms)].content
                   ELSE messages' = ms /\ toSend' = toSend
                /\ session' = SessionAfter(loaded.session, aliases', messages', systemPrompts')
                /\ cpc' = "loop"
                /\ epc' = "request"
                /\ failure' = failure
    /\ UNCHANGED <<io, mode, adapter, sessionArg, context, exit, ci, initialized, clients,
                   cleanup, closeCalls, tools, saved, response, idx, needsContinuation,
                   toolResults, inflight, started, settled, requests, lastRequest,
                   turnStart, turnsLog, output>>

\* Fatal as it would be if the loop noted the error and went on
FatalSwallowed(msg) == epc' = epc /\ cpc' = cpc /\ failure' = msg

\* Fatal as it would be if createMessage returned the state reached so far
FatalReturned(msg) == epc' = "returned" /\ cpc' = cpc /\ failure' = msg

\* An error thrown out of createMessage: the loop is abandoned and the
\* handler's catch clause runs.
Fatal(msg) == epc' = "thrown" /\ Raise(msg)

\* Payload as it would be if every request carried the prompt alone
PayloadPromptOnly ==
    [messages |-> <<Msg("user", StringContent(prompt))>>,
     system |-> systemPrompts,
     tools |-> Declared(adapter)]

\* The payload of the provider request built from the current history
Payload ==
    IF adapter = "anthropic"
    THEN [messages |-> applyCachingStrategy(messages),
          system |-> processedSystemPrompts(systemPrompts),
          tools |-> Declared(adapter)]
    ELSE IF adapter = "ollama"
    THEN [messages |-> [i \in 1..Len(systemPrompts) |->
                           Msg("system", StringContent(systemPrompts[i].text))] \o messages,
          system |-> systemPrompts,
          tools |-> Declared(adapter)]
    ELSE [messages |-> Append(messages, Msg("user", toSend)),
          system |-> systemPrompts,
          tools |-> Declared(adapter)]

\* anthropic.beta.messages.create / ollama.chat / chat.sendMessage: the
\* request and its reply, and the bookkeeping up to the first content block
SendRequest ==
    /\ cpc = "loop"
    /\ epc = "request"
    /\ \/ /\ Fatal("provider error")
          /\ UNCHANGED <<messages, systemPrompts, response, idx, needsContinuation,
                         toolResults, toSend, started, requests, lastRequest,
                         turnStart, turnsLog, aliases>>
       \/ \E r \in Replies(adapter, requests + 1) :
          /\ lastRequest' = Payload
          /\ aliases' = turnAliases(adapter, aliases)
          /\ requests' = requests + 1
          /\ turnStart' = Len(messages)
          /\ turnsLog' = Append(turnsLog, r)
          /\ response' = r
          /\ idx' = 1
          /\ needsContinuation' = FALSE
          /\ toolResults' = <<>>
          /\ started' = <<>>
          /\ epc' = "dispatch"
          /\ UNCHANGED <<cpc, failure>>
          /\ IF adapter = "anthropic"
             THEN /\ messages' = Append(messages, Msg("assistant", r))
                  /\ systemPrompts' = processedSystemPrompts(systemPrompts)
                  /\ toSend' = toSend
             ELSE IF adapter = "ollama"
             THEN /\ messages' = Append(messages, Msg("assistant", r))
                  /\ UNCHANGED <<systemPrompts, toSend>>
             ELSE /\ messages' = messages \o <<Msg("user", toSend), Msg("model", r)>>
                  /\ toSend' = IF ToolUses(r) # <<>> THEN <<>> ELSE toSend
                  /\ systemPrompts' = systemPrompts
    /\ session' = SessionAfter(session, aliases', messages', systemPrompts')
    /\ UNCHANGED <<io, mode, adapter, sessionArg, context, exit, ci, initialized, clients,
                   cleanup, closeCalls, tools, saved, inflight, settled, output>>

\* The tool_result block pushed for a settled tool call
ToolResultBlock(id, content, isError) ==
    IF isError THEN [type |-> "tool_result", tool_use_id |-> id, content |-> content,
                     is_error |-> TRUE]
    ELSE [type |-> "tool_result", tool_use_id |-> id, content |-> content]

\* Gemini: the functionResponse part pushed for a settled function call
FunctionResponse(call, content, isError) ==
    [type |-> "tool_result", tool_use_id |-> call.id, name |-> call.name,
     content |-> content, is_error |-> isError]

\* Ollama: the entry pushed on ret.toolResults
OllamaResult(content, system, isError) ==
    [content |-> content, system |-> system, is_error |-> isError]

\* ErrorResult as it would be if the catch clause forgot the error flag
ErrorResultNoFlag(msg) == [content |-> msg, system |-> "", is_error |-> FALSE]

\* The catch clause around describeInvocation/invoke: the recoverable
\* result built from the error message
ErrorResult(msg) == [content |-> msg, system |-> "", is_error |-> TRUE]

\* What the loop does with the toolResult of one tool call: Anthropic pushes
\* a user message and the system text, Ollama collects it, Gemini adds the
\* parts to the next message.
Record(call, res) ==
    /\ idx' = idx + 1
    /\ IF adapter = "anthropic"
       THEN /\ needsContinuation' = TRUE
            /\ systemPrompts' = IF res.system # "" THEN Append(systemPrompts, TextBlock(res.system))
                                ELSE systemPrompts
            /\ messages' = Append(messages,
                              Msg("user", <<ToolResultBlock(call.id, res.content, res.is_error)>>))
            /\ UNCHANGED <<toolResults, toSend>>
       ELSE IF adapter = "ollama"
       THEN /\ toolResults' = Append(toolResults, OllamaResult(res.content, res.system, res.is_error))
            /\ UNCHANGED <<needsContinuation, systemPrompts, messages, toSend>>
       ELSE /\ needsContinuation' = TRUE
            /\ toSend' = toSend
                         \o (IF res.system # "" THEN <<TextBlock(res.system)>> ELSE <<>>)
                         \o <<FunctionResponse(call, res.content, res.is_error)>>
            /\ UNCHANGED <<toolResults, systemPrompts, messages>>

\* this.output.text(content.text) / this.output.text(describeInvocation(...)):
\* the entry the sink receives, tagged with the request it belongs to
Streamed(block) == [type |-> "text", text |-> block.text, request |-> requests]
Described(call) == [type |-> "invocation", id |-> call.id]

\* Anthropic and Ollama output the text of every reply; Gemini outputs
\* result.text only when the reply holds no function call
EmitsText == adapter # "gemini" \/ ToolUses(response) = <<>>

\* StartInvoke as it would be if the loop did not await the call
StartInvokeNoAwait(call) ==
    /\ inflight' = inflight \cup {call.id}
    /\ started' = Append(started, call.id)
    /\ idx' = idx + 1
    /\ output' = Append(output, Described(call))
    /\ UNCHANGED <<epc, needsContinuation, systemPrompts, messages, toolResults, toSend,
                   cpc, failure>>

\* const result = await tool.invoke(params): the call is started and the
\* loop is suspended until it settles
StartInvoke(call) ==
    /\ inflight' = inflight \cup {call.id}
    /\ started' = Append(started, call.id)
    /\ epc' = "invoking"
    /\ output' = Append(output, Described(call))
    /\ UNCHANGED <<idx, needsContinuation, systemPrompts, messages, toolResults, toSend,
                   cpc, failure>>

\* Continues as it would be if the loop recursed after every reply
ContinuesAlways == TRUE

\* Continues as it would be if the loop returned after every reply
ContinuesNever == FALSE

\* If any tool was used, continue the conversation
Continues == IF adapter = "ollama" THEN Len(toolResults) > 0 ELSE needsContinuation

\* After the last block: Ollama pushes one tool message per result and the
\* system texts; then the loop recurses or returns
EndOfReply ==
    /\ IF adapter = "ollama"
       THEN /\ messages' = messages \o [i \in 1..Len(toolResults) |->
                                           Msg("tool", StringContent(toolResults[i].content))]
            /\ systemPrompts' = systemPrompts \o
                   [i \in 1..Len(SelectSeq(toolResults, LAMBDA t : t.system # "")) |->
                       TextBlock(SelectSeq(toolResults, LAMBDA t : t.system # "")[i].system)]
       ELSE UNCHANGED <<messages, systemPrompts>>
    /\ epc' = IF Continues THEN "request" ELSE "returned"
    /\ UNCHANGED <<idx, needsContinuation, toolResults, toSend, inflight, started,
                   cpc, failure, output>>

\* One content block of the reply: handleClaudeResponse, one iteration of
\* handleOllamaResponse's loop, handleToolCall
Dispatch ==
    /\ cpc = "loop"
    /\ epc = "dispatch"
    /\ IF idx > Len(response) THEN EndOfReply
       ELSE LET b == response[idx] IN
            IF b.type = "text"
            THEN /\ idx' = idx + 1
                 /\ output' = IF EmitsText THEN Append(output, Streamed(b)) ELSE output
                 /\ UNCHANGED <<epc, needsContinuation, systemPrompts, messages, toolResults,
                                toSend, inflight, started, cpc, failure>>
            ELSE IF Find(b.name) = 0
            THEN IF adapter = "gemini"
                 THEN /\ Record(b, ErrorResult("Tool not found"))
                      /\ UNCHANGED <<epc, inflight, started, cpc, failure, output>>
                 ELSE /\ Fatal("Tool not found")
                      /\ UNCHANGED <<idx, needsContinuation, systemPrompts, messages,
                                     toolResults, toSend, inflight, started, output>>
            ELSE IF describeInvocationThrows(b.name, b.input)
            THEN IF adapter = "anthropic"
                 THEN /\ Fatal(InvalidParams)
                      /\ UNCHANGED <<idx, needsContinuation, systemPrompts, messages,
                                     toolResults, toSend, inflight, started, output>>
                 ELSE /\ Record(b, ErrorResult(InvalidParams))
                      /\ UNCHANGED <<epc, inflight, started, cpc, failure, output>>
            ELSE StartInvoke(b)
    /\ session' = SessionAfter(session, aliases, messages', systemPrompts')
    /\ UNCHANGED <<io, mode, adapter, sessionArg, context, exit, ci, initialized, clients,
                   cleanup, closeCalls, tools, saved, response, settled, requests,
                   lastRequest, turnStart, turnsLog, aliases>>

\* tool.invoke settles: its result, or the catch clause's error result
Settle ==
    /\ cpc = "loop"
    /\ epc = "invoking"
    /\ LET b == response[idx] IN
       \E o \in invoke(b.name, b.input) :
          /\ settled' = Append(settled, [id |-> b.id, ok |-> o.ok, content |-> o.content,
                                         system |-> o.system, tool |-> Find(b.name)])
          /\ inflight' = inflight \ {b.id}
          /\ epc' = "dispatch"
          /\ Record(b, IF o.ok THEN [content |-> o.content, system |-> o.system, is_error |-> FALSE]
                       ELSE ErrorResult(o.content))
    /\ session' = SessionAfter(session, aliases, messages', systemPrompts')
    /\ UNCHANGED <<io, mode, adapter, sessionArg, context, cpc, failure, exit, ci, initialized,
                   clients, cleanup, closeCalls, tools, saved, response, started,
                   requests, lastRequest, turnStart, turnsLog, aliases, output>>

\* model.saveSession(options?.session, result)
saveSession(a, result) ==
    IF a = "anthropic" THEN JSON_stringify(StateOf(stripCacheControlMarkers(result)))
    ELSE JSON_stringify(StateOf(result))

SaveSession ==
    /\ cpc = "loop"
    /\ epc = "returned"
    /\ \/ /\ cpc' = "finally"
          /\ saved' = IF sessionArg = "none" THEN saved
                      ELSE saveSession(adapter, [messages |-> messages,
                                                 systemPrompts |-> systemPrompts])
          /\ failure' = failure
       \/ /\ sessionArg # "none"
          /\ Raise("write failed")
          /\ saved' = saved
    /\ UNCHANGED <<io, mode, adapter, sessionArg, context, exit, ci, initialized, clients,
                   cleanup, closeCalls, tools, session, loopVars>>

Next ==
    \/ GetPrompt
    \/ Initialize
    \/ GetTools
    \/ CreateMessage
    \/ SendRequest
    \/ Dispatch
    \/ Settle
    \/ SaveSession
    \/ Catch
    \/ Finally

Spec == Init /\ [][Next]_vars

\* Fairness: the provider call, every tool invocation and every await of the
\* handler settle, so an enabled step is eventually taken.
LiveSpec == Init /\ [][Next]_vars /\ WF_vars(Next)

\* ----------------------------------- the Model class with token caching
\* One run of Model.createMessage: the prior session, the turns of
\* createMessageFromHistory (each with its request, its reply and the
\* results of the reply's tool calls), and the saving of the final state.
MaxRequests == 4     \* provider requests in one run of Model.createMessage

Model_prompt == Text(6, 0)
ShortReply == Text(4092, 0)
LongReply == Text(8196, 0)

\* Session files of earlier runs: a short exchange and a long one
Model_StoredSessions ==
    { [present |-> TRUE,
       messages |-> <<Msg("user", StringContent(Model_prompt)),
                      Msg("assistant", <<TextBlock(t)>>)>>,
       systemPrompts |-> <<TextBlock(basePrompt)>>] : t \in {Text(40, 4), ShortReply} }

Model_ToolUse(n, i, name, input) ==
    [type |-> "tool_use", id |-> IdOf(n, i), name |-> name, input |-> input]

\* The replies to request n: a text, then no call (the only choice for the
\* last request), one call, or two calls
Model_Replies(n) ==
    { <<TextBlock(t)>> : t \in {ShortReply, LongReply} }
    \cup (IF n >= MaxRequests THEN {}
          ELSE { <<TextBlock(t), Model_ToolUse(n, 2, "read_file", Text(8, 0))>> :
                    t \in {ShortReply, LongReply} }
               \cup { <<TextBlock(LongReply), Model_ToolUse(n, 2, "grep_search", LongReply),
                        Model_ToolUse(n, 3, "read_file", Text(8, 0))>> })

\* The outcomes of the tool calls of one reply, one per call
Model_Outcomes(uses) ==
    {f \in [1..Len(uses) -> UNION {invoke(uses[k].name, "good") : k \in 1..Len(uses)}] :
        \A k \in 1..Len(uses) : f[k] \in invoke(uses[k].name, "good")}

CacheInit ==
    /\ mode = "ask"
    /\ adapter = "anthropic"
    /\ sessionArg \in {"none", "missing", "existing"}
    /\ saved \in (IF sessionArg = "existing"
                  THEN {JSON_stringify(StateOf(st)) : st \in Model_StoredSessions}
                  ELSE {NoFile})
    /\ context = <<>>
    /\ cpc = "createMessage"
    /\ failure = ""
    /\ exit = "running"
    /\ ci = 1
    /\ initialized = {}
    /\ clients = <<>>
    /\ cleanup = <<>>
    /\ closeCalls = [c \in 1..NumClients |-> 0]
    /\ tools = baseTools
    /\ session = NoSession
    /\ epc = "idle"
    /\ messages = <<>>
    /\ systemPrompts = <<>>
    /\ response = <<>>
    /\ idx = 1
    /\ needsContinuation = FALSE
    /\ toolResults = <<>>
    /\ toSend = <<>>
    /\ inflight = {}
    /\ started = <<>>
    /\ settled = <<>>
    /\ requests = 0
    /\ lastRequest = [messages |-> <<>>, system |-> <<>>]
    /\ turnStart = 0
    /\ turnsLog = <<>>
    /\ aliases = {}
    /\ output = <<>>
    /\ io = NoIO

\* Model.createMessage up to the first call of createMessageFromHistory
Model_createMessage ==
    /\ cpc = "createMessage"
    /\ session' = loadSession(adapter, sessionArg, saved).session
    /\ systemPrompts' = InitialSystemPrompts(session', context)
    /\ messages' = (IF session'.present THEN session'.messages ELSE <<>>)
                   \o <<Msg("user", StringContent(Model_prompt))>>
    /\ cpc' = "loop"
    /\ epc' = "request"
    /\ UNCHANGED <<io, mode, adapter, sessionArg, context, failure, exit, ci, initialized, clients,
                   cleanup, closeCalls, tools, saved, response, idx, needsContinuation,
                   toolResults, toSend, inflight, started, settled, requests, lastRequest,
                   turnStart, turnsLog, aliases, output>>

\* Model.createMessageFromHistory: one turn.  The history carried to the
\* next turn starts from processedMessages, the annotated copy.
Model_createMessageFromHistory ==
    /\ cpc = "loop"
    /\ epc = "request"
    /\ \E r \in Model_Replies(requests + 1) : \E o \in Model_Outcomes(ToolUses(r)) :
          LET processedMessages == Model_applyCachingStrategy(messages)
              processed == processedSystemPrompts(systemPrompts)
              uses == ToolUses(r)
              withSystem == SelectSeq([k \in 1..Len(uses) |-> o[k]], LAMBDA x : x.system # "")
          IN  /\ lastRequest' = [messages |-> processedMessages, system |-> processed]
              /\ requests' = requests + 1
              /\ turnStart' = Len(messages)
              /\ turnsLog' = Append(turnsLog, r)
              /\ response' = r
              /\ idx' = Len(r) + 1
              /\ needsContinuation' = (uses # <<>>)
              /\ settled' = settled \o [k \in 1..Len(uses) |->
                                [id |-> uses[k].id, ok |-> o[k].ok, content |-> o[k].content,
                                 system |-> o[k].system]]
              /\ messages' = processedMessages \o <<Msg("assistant", r)>>
                             \o [k \in 1..Len(uses) |->
                                   Msg("user", <<ToolResultBlock(uses[k].id, o[k].content, ~o[k].ok)>>)]
              /\ systemPrompts' = processed \o [k \in 1..Len(withSystem) |->
                                                  TextBlock(withSystem[k].system)]
              /\ epc' = IF uses # <<>> THEN "request" ELSE "returned"
    /\ UNCHANGED <<io, cmdVars, toolResults, toSend, inflight, started, aliases, output>>

\* saveSession(options.session, result, output) of common-args.ts
Model_saveSession ==
    /\ cpc = "loop"
    /\ epc = "returned"
    /\ saved' = IF sessionArg = "none" THEN saved
                ELSE saveSession(adapter, [messages |-> messages,
                                           systemPrompts |-> systemPrompts])
    /\ cpc' = "saved"
    /\ UNCHANGED <<io, mode, adapter, sessionArg, context, failure, exit, ci, initialized, clients,
                   cleanup, closeCalls, tools, session, loopVars>>

\* loadSession(options.session, output) of the next run on the same path
Model_loadSession ==
    /\ cpc = "saved"
    /\ session' = loadSession(adapter, sessionArg, saved).session
    /\ cpc' = "reloaded"
    /\ UNCHANGED <<io, mode, adapter, sessionArg, context, failure, exit, ci, initialized, clients,
                   cleanup, closeCalls, tools, saved, loopVars>>

CacheNext ==
    \/ Model_createMessage
    \/ Model_createMessageFromHistory
    \/ Model_saveSession
    \/ Model_loadSession

CacheSpec == CacheInit /\ [][CacheNext]_vars

\* ------------------------------------- the file tools and their paths
\* One reply whose tool calls name a path: ReadFileTool, ListDirTool and
\* EditFileTool check the path against the workspace root before they touch
\* the file system.  A string is the sequence of its characters.
MaxCalls == 2        \* tool calls in the reply

workspaceRoot == <<"/", "w">>
RelPaths ==
    { <<"f">>,
      <<"d", "/", "f">>,
      <<"/", "e">>,
      <<".", ".">>,
      <<".", ".", "/", "x">>,
      <<".", ".", "/", "w", "/", "f">>,
      <<".", ".", "/", "w", "x">>,
      <<"d", "/", ".", ".", "/", ".", ".", "/", "w", "x", "/", "f">> }
FileTools == {"read_file", "list_dir", "edit_file"}

\* The segments of a path: split at "/", empty segments dropped
RECURSIVE Split(_, _, _, _)
Split(s, i, cur, acc) ==
    IF i > Len(s) THEN (IF cur = <<>> THEN acc ELSE Append(acc, cur))
    ELSE IF s[i] = "/" THEN Split(s, i + 1, <<>>, IF cur = <<>> THEN acc ELSE Append(acc, cur))
    ELSE Split(s, i + 1, Append(cur, s[i]), acc)
Segments(s) == Split(s, 1, <<>>, <<>>)

\* "." is dropped and ".." removes the segment before it (none above "/")
RECURSIVE Resolve(_, _, _)
Resolve(segs, i, acc) ==
    IF i > Len(segs) THEN acc
    ELSE IF segs[i] = <<".">> THEN Resolve(segs, i + 1, acc)
    ELSE IF segs[i] = <<".", ".">>
    THEN Resolve(segs, i + 1, IF acc = <<>> THEN acc ELSE SubSeq(acc, 1, Len(acc) - 1))
    ELSE Resolve(segs, i + 1, Append(acc, segs[i]))

RECURSIVE Unsplit(_)
Unsplit(segs) == IF segs = <<>> THEN <<>> ELSE <<"/">> \o Head(segs) \o Unsplit(Tail(segs))

\* path.normalize of an absolute path without trailing separator
path_normalize(p) ==
    LET segs == Resolve(Segments(p), 1, <<>>)
    IN  IF segs = <<>> THEN <<"/">> ELSE Unsplit(segs)

\* path.join(a, b): the two joined by a separator, normalized
path_join(a, b) == path_normalize(a \o <<"/">> \o b)

\* String.prototype.startsWith
startsWith(str, prefix) ==
    Len(str) >= Len(prefix) /\ SubSeq(str, 1, Len(prefix)) = prefix

FileOutcome(ok, content, system, accessed) ==
    [ok |-> ok, content |-> content, system |-> system, accessed |-> accessed]

\* invoke of ReadFileTool, ListDirTool and EditFileTool: the outcomes, each
\* with the locations of the file system it touched.  EditFileTool reports
\* a failed write in its result instead of throwing.
FileTool_invoke(name, relative_workspace_path) ==
    LET fullPath == path_join(workspaceRoot, relative_workspace_path)
        normalizedPath == path_normalize(fullPath)
    IN  IF ~startsWith(normalizedPath, workspaceRoot)
        THEN {FileOutcome(FALSE, "Access denied", "", {})}
        ELSE IF name = "read_file"
        THEN {FileOutcome(TRUE, "File read successfully", "file contents", {normalizedPath}),
              FileOutcome(FALSE, "Failed to read file", "", {normalizedPath})}
        ELSE IF name = "list_dir"
        THEN {FileOutcome(TRUE, "entries", "", {normalizedPath}),
              FileOutcome(FALSE, "Failed to list directory", "", {normalizedPath})}
        ELSE {FileOutcome(TRUE, "Successful writes", "", {normalizedPath}),
              FileOutcome(TRUE, "Failed writes", "", {normalizedPath})}

\* The replies: one to MaxCalls calls of file tools, each with a path
FileCalls == {[name |-> n, input |-> p] : n \in FileTools, p \in RelPaths}
FileReplies ==
    UNION { { [i \in 1..len |-> [type |-> "tool_use", id |-> IdOf(1, i),
                                 name |-> f[i].name, input |-> f[i].input]] :
              f \in [1..len -> FileCalls] } : len \in 1..MaxCalls }

\* The loop of an edit command right after the first reply has arrived
ToolInit ==
    /\ mode = "edit"
    /\ adapter \in {"anthropic", "ollama", "gemini"}
    /\ sessionArg = "none"
    /\ saved = NoFile
    /\ context = <<>>
    /\ cpc = "loop"
    /\ failure = ""
    /\ exit = "running"
    /\ ci = 1
    /\ initialized = {}
    /\ clients = <<>>
    /\ cleanup = <<>>
    /\ closeCalls = [c \in 1..NumClients |-> 0]
    /\ tools = baseTools \o editTools
    /\ session = NoSession
    /\ epc = "dispatch"
    /\ response \in FileReplies
    /\ messages = InitialMessages(adapter, NoSession) \o <<Msg(AssistantRole, response)>>
    /\ systemPrompts = IF adapter = "anthropic"
                       THEN processedSystemPrompts(<<TextBlock(basePrompt)>>)
                       ELSE <<TextBlock(basePrompt)>>
    /\ idx = 1
    /\ needsContinuation = FALSE
    /\ toolResults = <<>>
    /\ toSend = <<>>
    /\ inflight = {}
    /\ started = <<>>
    /\ settled = <<>>
    /\ requests = 1
    /\ lastRequest =
          [messages |-> IF adapter = "anthropic"
                        THEN applyCachingStrategy(InitialMessages(adapter, NoSession))
                        ELSE IF adapter = "ollama"
                        THEN <<Msg("system", StringContent(basePrompt))>>
                             \o InitialMessages(adapter, NoSession)
                        ELSE InitialMessages(adapter, NoSession),
           system |-> IF adapter = "anthropic"
                      THEN processedSystemPrompts(<<TextBlock(basePrompt)>>)
                      ELSE <<TextBlock(basePrompt)>>]
    /\ turnStart = Len(InitialMessages(adapter, NoSession))
    /\ turnsLog = <<response>>
    /\ aliases = {}
    /\ output = <<>>
    /\ io = NoIO

\* handleClaudeResponse / handleOllamaResponse / handleToolCall for one call
\* of a file tool: describeInvocation, await invoke, the catch clause, and
\* what the loop does with the toolResult
FileTool_Dispatch ==
    /\ cpc = "loop"
    /\ epc = "dispatch"
    /\ idx <= Len(response)
    /\ LET b == response[idx] IN
       \E o \in FileTool_invoke(b.name, b.input) :
          /\ started' = Append(started, b.id)
          /\ output' = Append(output, Described(b))
          /\ settled' = Append(settled, [id |-> b.id, ok |-> o.ok, content |-> o.content,
                                         system |-> o.system, accessed |-> o.accessed])
          /\ Record(b, IF o.ok THEN [content |-> o.content, system |-> o.system,
                                     is_error |-> FALSE]
                       ELSE ErrorResult(o.content))
    /\ UNCHANGED <<io, cmdVars, epc, response, inflight, requests, lastRequest, turnStart,
                   turnsLog, aliases>>

\* After the last call the loop goes on to the next request
FileTool_EndOfReply ==
    /\ cpc = "loop"
    /\ epc = "dispatch"
    /\ idx > Len(response)
    /\ EndOfReply
    /\ UNCHANGED <<io, mode, adapter, sessionArg, context, exit, ci, initialized, clients,
                   cleanup, closeCalls, tools, session, saved, response, settled, requests,
                   lastRequest, turnStart, turnsLog, aliases>>

ToolNext == FileTool_Dispatch \/ FileTool_EndOfReply

ToolSpec == ToolInit /\ [][ToolNext]_vars

\* ------------------------------ Model.applyCachingStrategy on its own
\* The annotator applied to a history of MaxHistory blocks at most; it logs
\* the case it took with the two counters of its first pass.
MaxHistory == 4      \* content blocks in the history

Small == Text(1, 3)          \* 1 token
Medium == Text(4095, 0)      \* 1024 tokens
Large == Text(8191, 0)       \* 2048 tokens
PlainBlocks ==
    { TextBlock(Small), TextBlock(Medium), TextBlock(Large),
      [type |-> "tool_use", id |-> 1, name |-> "grep_search", input |-> Medium],
      [type |-> "tool_result", tool_use_id |-> 1, content |-> "matches"] }
HistoryBlocks == PlainBlocks \cup {Ephemeral @@ b : b \in PlainBlocks}

\* The blocks as messages of alternating roles ending with a user message:
\* one block per message, or the last two blocks in one message; a first
\* message holding one unmarked text block may hold it as a string
History(blocks, paired, asString) ==
    LET n == Len(blocks)
        len == IF paired /\ n >= 2 THEN n - 1 ELSE n
        Role(i) == IF (len - i) % 2 = 0 THEN "user" ELSE "assistant"
        Content(i) ==
            IF i = len /\ len < n THEN <<blocks[n - 1], blocks[n]>>
            ELSE IF i = 1 /\ asString /\ blocks[1].type = "text" /\ ~HasMarker(blocks[1])
            THEN StringContent(blocks[1].text)
            ELSE <<blocks[i]>>
    IN  [i \in 1..len |-> Msg(Role(i), Content(i))]
\* this.output.aiInfo(`Caching: ...`): the case taken, cacheControlCount and
\* tokensSinceLastMarker after the first pass
CachingInfo(ms) ==
    LET pm == [i \in 1..Len(ms) |-> ArrayContent(ms[i])]
        acc == CountMarkers(pm, 1, 1, [count |-> 0, tokens |-> 0, last |-> <<0, 0>>])
    IN  [type |-> "aiInfo",
         case |-> IF acc.count = 0 /\ acc.tokens > FirstMarkerTokens THEN 1
                  ELSE IF acc.count > 0 /\ acc.count < MaxMarkers
                          /\ acc.tokens > NextMarkerTokens THEN 2
                  ELSE IF acc.count >= MaxMarkers /\ acc.last # <<0, 0>> THEN 3
                  ELSE 0,
         cacheControlCount |-> acc.count,
         tokensSinceLastMarker |-> acc.tokens]

AnnotatorInit ==
    /\ mode = "ask"
    /\ adapter = "anthropic"
    /\ sessionArg = "none"
    /\ saved = NoFile
    /\ context = <<>>
    /\ cpc = "loop"
    /\ failure = ""
    /\ exit = "running"
    /\ ci = 1
    /\ initialized = {}
    /\ clients = <<>>
    /\ cleanup = <<>>
    /\ closeCalls = [c \in 1..NumClients |-> 0]
    /\ tools = baseTools
    /\ session = NoSession
    /\ epc = "request"
    /\ \E n \in 1..MaxHistory : \E f \in [1..n -> HistoryBlocks] :
          \E paired \in BOOLEAN : \E asString \in BOOLEAN :
             messages = History(f, paired, asString)
    /\ systemPrompts = <<TextBlock(basePrompt)>>
    /\ response = <<>>
    /\ idx = 1
    /\ needsContinuation = FALSE
    /\ toolResults = <<>>
    /\ toSend = <<>>
    /\ inflight = {}
    /\ started = <<>>
    /\ settled = <<>>
    /\ requests = 0
    /\ lastRequest = [messages |-> <<>>, system |-> <<>>]
    /\ turnStart = 0
    /\ turnsLog = <<>>
    /\ aliases = {}
    /\ output = <<>>
    /\ io = NoIO

\* const processedMessages = this.applyCachingStrategy(messages), and the
\* request built from it
Annotator_apply ==
    /\ epc = "request"
    /\ requests = 0
    /\ lastRequest' = [messages |-> Model_applyCachingStrategy(messages),
                       system |-> processedSystemPrompts(systemPrompts)]
    /\ output' = Append(output, CachingInfo(messages))
    /\ requests' = 1
    /\ epc' = "dispatch"
    /\ UNCHANGED <<io, cmdVars, messages, systemPrompts, response, idx, needsContinuation,
                   toolResults, toSend, inflight, started, settled, turnStart, turnsLog,
                   aliases>>

AnnotatorNext == Annotator_apply

AnnotatorSpec == AnnotatorInit /\ [][AnnotatorNext]_vars

\* -------------------------------------- MCPClient.getTools on its own
\* One client constructed with an allow-list, and its getTools call.
MaxAllowed == 2      \* names in an allow-list

ToolNames == {"definition", "references", "hover", "read_file", "rename_symbol"}

ClientInit ==
    /\ mode \in {"ask", "edit"}
    /\ adapter = "anthropic"
    /\ sessionArg = "none"
    /\ saved = NoFile
    /\ context = <<>>
    /\ cpc = "getTools"
    /\ failure = ""
    /\ exit = "running"
    /\ ci = 1
    /\ initialized = {}
    /\ \E c \in 1..NumClients : \E n \in 0..MaxAllowed : \E allowed \in [1..n -> ToolNames] :
          clients = <<[id |-> c, allowedTools |-> allowed]>>
    /\ cleanup = <<>>
    /\ closeCalls = [c \in 1..NumClients |-> 0]
    /\ tools = <<>>
    /\ session = NoSession
    /\ epc = "idle"
    /\ messages = <<>>
    /\ systemPrompts = <<>>
    /\ response = <<>>
    /\ idx = 1
    /\ needsContinuation = FALSE
    /\ toolResults = <<>>
    /\ toSend = <<>>
    /\ inflight = {}
    /\ started = <<>>
    /\ settled = <<>>
    /\ requests = 0
    /\ lastRequest = [messages |-> <<>>, system |-> <<>>]
    /\ turnStart = 0
    /\ turnsLog = <<>>
    /\ aliases = {}
    /\ output = <<>>
    /\ io = NoIO

\* const tools = await client.getTools(); allTools.push(...tools)
MCPClient_getTools ==
    /\ cpc = "getTools"
    /\ tools' = tools \o getTools(clients[1].id, clients[1].allowedTools)
    /\ cpc' = "createMessage"
    /\ UNCHANGED <<io, mode, adapter, sessionArg, context, failure, exit, ci, initialized,
                   clients, cleanup, closeCalls, session, saved, loopVars>>

ClientNext == MCPClient_getTools

ClientSpec == ClientInit /\ [][ClientNext]_vars

\* ------------------------------------------------ input.ts: getPrompt
\* The handler with getPrompt in full.  A text is the sequence of its
\* characters; " " stands for whitespace.
MaxStdin == 2        \* characters piped to stdin

NoPromptProvided == "No prompt provided via stdin, argument, or editor"
EditorFailed(err) ==
    IF err = "nonzero"
    THEN "Failed to get prompt from editor: Editor exited with non-zero code"
    ELSE "Failed to get prompt from editor: spawn nvim ENOENT"

\* String.prototype.trim
trim(s) ==
    LET solid == {i \in 1..Len(s) : s[i] # " "}
    IN  IF solid = {} THEN <<>>
        ELSE SubSeq(s, CHOOSE i \in solid : \A j \in solid : i <= j,
                       CHOOSE i \in solid : \A j \in solid : i >= j)

\* getStdinInput as it would be without the trim
getStdinInputRaw(stdin) == IF stdin.isTTY THEN <<>> ELSE stdin.text

\* getStdinInput: the piped text, trimmed; '' on a terminal
getStdinInput(stdin) == IF stdin.isTTY THEN <<>> ELSE trim(stdin.text)

\* What the editor session can come to: the events the child emits, in order
CloseEvent(code) == [type |-> "close", code |-> code]
ErrorEvent == [type |-> "error", code |-> 0]
EditorOutcomes ==
    {<<CloseEvent(0)>>, <<CloseEvent(1)>>, <<ErrorEvent>>, <<ErrorEvent, CloseEvent(-2)>>}
EditorTexts == {<<>>, <<" ">>, <<"e">>, <<" ", "e">>}
Arguments == {[given |-> FALSE, text |-> <<>>]}
             \cup {[given |-> TRUE, text |-> t] : t \in {<<>>, <<" ">>, <<"a">>}}

InputInit ==
    /\ mode = "ask"
    /\ adapter = "anthropic"
    /\ sessionArg = "none"
    /\ saved = NoFile
    /\ context = <<>>
    /\ cpc = "getPrompt"
    /\ failure = ""
    /\ exit = "running"
    /\ ci = 1
    /\ initialized = {}
    /\ clients = <<>>
    /\ cleanup = <<>>
    /\ closeCalls = [c \in 1..NumClients |-> 0]
    /\ tools = <<>>
    /\ session = NoSession
    /\ epc = "idle"
    /\ messages = <<>>
    /\ systemPrompts = <<>>
    /\ response = <<>>
    /\ idx = 1
    /\ needsContinuation = FALSE
    /\ toolResults = <<>>
    /\ toSend = <<>>
    /\ inflight = {}
    /\ started = <<>>
    /\ settled = <<>>
    /\ requests = 0
    /\ lastRequest = [messages |-> <<>>, system |-> <<>>]
    /\ turnStart = 0
    /\ turnsLog = <<>>
    /\ aliases = {}
    /\ output = <<>>
    /\ \E tty \in BOOLEAN : \E n \in 0..MaxStdin : \E text \in [1..n -> {" ", "s"}] :
       \E questionArg \in Arguments : \E events \in EditorOutcomes : \E written \in EditorTexts :
          /\ tty => n = 0
          /\ events # <<CloseEvent(0)>> => written = <<>>
          /\ io = [pc |-> "getPrompt",
                   stdin |-> [isTTY |-> tty, text |-> text],
                   questionArg |-> questionArg,
                   editor |-> events,
                   events |-> events,
                   written |-> written,
                   prompt |-> <<>>,
                   tmpFile |-> "none",
                   unlinkCalls |-> 0,
                   settles |-> <<>>,
                   threw |-> FALSE]

\* getPrompt up to the await of getPromptFromEditor, which creates the
\* temporary file and spawns the editor
Input_getPrompt ==
    /\ cpc = "getPrompt"
    /\ io.pc = "getPrompt"
    /\ LET fromStdin == getStdinInput(io.stdin)
           p == IF fromStdin = <<>> /\ io.questionArg.given /\ io.questionArg.text # <<>>
                THEN io.questionArg.text ELSE fromStdin
       IN  IF p # <<>>
           THEN /\ io' = [io EXCEPT !.pc = "done", !.prompt = p]
                /\ cpc' = "initialize"
           ELSE /\ io' = [io EXCEPT !.pc = "editor", !.tmpFile = "exists"]
                /\ cpc' = cpc
    /\ UNCHANGED <<mode, adapter, sessionArg, context, failure, exit, ci, initialized,
                   clients, cleanup, closeCalls, tools, session, saved, loopVars>>

\* fs.unlinkSync(tmpFile) followed by a settling call: the file is removed
\* and the call made, or unlinkSync throws out of the event handler and the
\* process ends on the uncaught exception
UnlinkThenSettle(call) ==
    IF io.tmpFile = "exists"
    THEN /\ io' = [io EXCEPT !.events = Tail(@), !.tmpFile = "removed",
                              !.unlinkCalls = @ + 1, !.settles = Append(@, call)]
         /\ UNCHANGED <<cpc, exit>>
    ELSE /\ io' = [io EXCEPT !.events = Tail(@), !.unlinkCalls = @ + 1, !.threw = TRUE]
         /\ cpc' = "exited"
         /\ exit' = "crash"

\* editor.on('close', (code) => ...)
Editor_close ==
    /\ io.pc = "editor"
    /\ io.events # <<>>
    /\ Head(io.events).type = "close"
    /\ IF Head(io.events).code = 0
       THEN UnlinkThenSettle([how |-> "resolve", value |-> trim(io.written)])
       ELSE UnlinkThenSettle([how |-> "reject", value |-> "nonzero"])
    /\ UNCHANGED <<mode, adapter, sessionArg, context, failure, ci, initialized,
                   clients, cleanup, closeCalls, tools, session, saved, loopVars>>

\* editor.on('error', (err) => ...)
Editor_error ==
    /\ io.pc = "editor"
    /\ io.events # <<>>
    /\ Head(io.events).type = "error"
    /\ UnlinkThenSettle([how |-> "reject", value |-> "spawn"])
    /\ UNCHANGED <<mode, adapter, sessionArg, context, failure, ci, initialized,
                   clients, cleanup, closeCalls, tools, session, saved, loopVars>>

\* getPrompt after the await: the catch clause around getPromptFromEditor,
\* the final check, the return
Input_resume ==
    /\ cpc = "getPrompt"
    /\ io.pc = "editor"
    /\ io.events = <<>>
    /\ io.settles # <<>>
    /\ LET first == io.settles[1] IN
       IF first.how = "reject"
       THEN /\ Raise(EditorFailed(first.value))
            /\ io' = [io EXCEPT !.pc = "done"]
       ELSE IF first.value = <<>>
       THEN /\ Raise(NoPromptProvided)
            /\ io' = [io EXCEPT !.pc = "done"]
       ELSE /\ cpc' = "initialize"
            /\ failure' = failure
            /\ io' = [io EXCEPT !.pc = "done", !.prompt = first.value]
    /\ UNCHANGED <<mode, adapter, sessionArg, context, exit, ci, initialized,
                   clients, cleanup, closeCalls, tools, session, saved, loopVars>>

InputNext ==
    \/ Input_getPrompt
    \/ Editor_close
    \/ Editor_error
    \/ Input_resume
    \/ Initialize
    \/ GetTools
    \/ CreateMessage
    \/ SendRequest
    \/ Dispatch
    \/ Settle
    \/ SaveSession
    \/ Catch
    \/ Finally

InputSpec == InputInit /\ [][InputNext]_vars

\* ------------------------------------- GrepSearchTool.spawnAsync
\* One call of spawnAsync from invoke: the child writes chunks to stdout and
\* stderr and emits 'exit' and/or 'error'; the events are delivered in any
\* order that keeps the chunks of one stream in order.
MaxChunks == 2       \* chunks the child writes to stdout

stdoutChunks == <<"o1", "o2", "o3">>
stderrChunks == <<"e1">>
NoExit == [emitted |-> FALSE, code |-> 0, signal |-> ""]
Exits == {NoExit} \cup {[emitted |-> TRUE, code |-> c, signal |-> ""] : c \in {0, 1}}
                  \cup {[emitted |-> TRUE, code |-> -1, signal |-> "SIGTERM"]}
NotSettled == [how |-> "pending"]

SpawnInit ==
    /\ mode = "ask"
    /\ adapter = "anthropic"
    /\ sessionArg = "none"
    /\ saved = NoFile
    /\ context = <<>>
    /\ cpc = "loop"
    /\ failure = ""
    /\ exit = "running"
    /\ ci = 1
    /\ initialized = {}
    /\ clients = <<>>
    /\ cleanup = <<>>
    /\ closeCalls = [c \in 1..NumClients |-> 0]
    /\ tools = <<>>
    /\ session = NoSession
    /\ epc = "invoking"
    /\ messages = <<>>
    /\ systemPrompts = <<>>
    /\ response = <<>>
    /\ idx = 1
    /\ needsContinuation = FALSE
    /\ toolResults = <<>>
    /\ toSend = <<>>
    /\ inflight = {}
    /\ started = <<>>
    /\ settled = <<>>
    /\ requests = 0
    /\ lastRequest = [messages |-> <<>>, system |-> <<>>]
    /\ turnStart = 0
    /\ turnsLog = <<>>
    /\ aliases = {}
    /\ output = <<>>
    /\ \E n \in 0..MaxChunks : \E m \in 0..Len(stderrChunks) : \E ex \in Exits : \E err \in BOOLEAN :
          io = [pc |-> "spawned",
                wrote |-> [stdout |-> SubSeq(stdoutChunks, 1, n),
                           stderr |-> SubSeq(stderrChunks, 1, m)],
                pending |-> [stdout |-> SubSeq(stdoutChunks, 1, n),
                             stderr |-> SubSeq(stderrChunks, 1, m),
                             exit |-> ex.emitted, error |-> err],
                exit |-> ex,
                done |-> FALSE,
                ret |-> [code |-> 0, stdout |-> <<>>, stderr |-> <<>>],
                settles |-> <<>>,
                handed |-> NotSettled]

\* child.stdout.on('data', ...): ret.stdout += data
Spawn_stdout_data ==
    /\ io.pc = "spawned"
    /\ io.pending.stdout # <<>>
    /\ io' = [io EXCEPT !.pending.stdout = Tail(@),
                        !.ret.stdout = Append(@, Head(io.pending.stdout))]
    /\ UNCHANGED <<cmdVars, loopVars>>

\* child.stderr.on('data', ...): ret.stderr += data
Spawn_stderr_data ==
    /\ io.pc = "spawned"
    /\ io.pending.stderr # <<>>
    /\ io' = [io EXCEPT !.pending.stderr = Tail(@),
                        !.ret.stderr = Append(@, Head(io.pending.stderr))]
    /\ UNCHANGED <<cmdVars, loopVars>>

\* child.on('error', ...)
Spawn_error ==
    /\ io.pc = "spawned"
    /\ io.pending.error
    /\ io' = IF io.done THEN [io EXCEPT !.pending.error = FALSE]
             ELSE [io EXCEPT !.pending.error = FALSE, !.done = TRUE,
                             !.settles = Append(@, "reject")]
    /\ UNCHANGED <<cmdVars, loopVars>>

\* child.on('exit', (code, signal) => ...)
Spawn_exit ==
    /\ io.pc = "spawned"
    /\ io.pending.exit
    /\ io' = IF io.done THEN [io EXCEPT !.pending.exit = FALSE]
             ELSE IF io.exit.signal # ""
             THEN [io EXCEPT !.pending.exit = FALSE, !.done = TRUE,
                             !.settles = Append(@, "reject")]
             ELSE [io EXCEPT !.pending.exit = FALSE, !.done = TRUE,
                             !.ret.code = io.exit.code,
                             !.settles = Append(@, "resolve")]
    /\ UNCHANGED <<cmdVars, loopVars>>

\* const { stdout, stderr } = await this.spawnAsync(...): invoke goes on once
\* the promise is settled, and reads ret as it is then
Invoke_resume ==
    /\ io.pc = "spawned"
    /\ io.settles # <<>>
    /\ io.handed = NotSettled
    /\ io' = [io EXCEPT !.handed =
                 IF io.settles[1] = "resolve"
                 THEN [how |-> "resolved", stdout |-> io.ret.stdout, stderr |-> io.ret.stderr]
                 ELSE [how |-> "rejected"]]
    /\ UNCHANGED <<cmdVars, loopVars>>

SpawnNext ==
    \/ Spawn_stdout_data
    \/ Spawn_stderr_data
    \/ Spawn_error
    \/ Spawn_exit
    \/ Invoke_resume

SpawnSpec == SpawnInit /\ [][SpawnNext]_vars

\* ------------------------------------------------------------- properties
Range(f) == {f[i] : i \in DOMAIN f}
IsError(b) == "is_error" \in DOMAIN b /\ b.is_error
SettledIds == {s.id : s \in Range(settled)}
OutcomeOf(id) == CHOOSE s \in Range(settled) : s.id = id
FatalCauses == {"provider error", "Tool not found", InvalidParams}

\* C1 -- tool-result pairing: in the history createMessage returns, every
\* tool_use block of an assistant message has, in the message right after
\* it, a user message with exactly one tool_result carrying its id, the
\* tool's content (or its error message with is_error = true).
C1_ToolResultPairing ==
    (adapter = "anthropic" /\ epc = "returned") =>
        \A i \in 1..Len(messages) : messages[i].role = "assistant" =>
            \A j \in 1..Len(messages[i].content) :
                LET b == messages[i].content[j] IN
                IsToolUse(b) =>
                    /\ i + 1 <= Len(messages)
                    /\ messages[i + 1].role = "user"
                    /\ LET c == messages[i + 1].content
                           hits == {k \in 1..Len(c) : IsToolResult(c[k]) /\ c[k].tool_use_id = b.id}
                       IN  /\ Cardinality(hits) = 1
                           /\ \A k \in hits :
                                /\ b.id \in SettledIds
                                /\ c[k].content = OutcomeOf(b.id).content
                                /\ IsError(c[k]) = ~OutcomeOf(b.id).ok

\* C2 -- one result message per turn: when a turn whose reply holds k >= 1
\* tool_use blocks is over, exactly one message was appended after the
\* assistant message, and (Anthropic) it is a user message holding the k
\* tool_results in the order of the tool_use blocks.
TurnOver == epc \in {"request", "returned"} /\ requests >= 1
C2_SingleResultMessage ==
    (adapter \in {"anthropic", "ollama"} /\ TurnOver /\ ToolUses(response) # <<>>) =>
        /\ Len(messages) = turnStart + 2
        /\ adapter = "anthropic" =>
             LET m == messages[turnStart + 2]
                 uses == ToolUses(response)
             IN  /\ m.role = "user"
                 /\ Len(m.content) = Len(uses)
                 /\ \A k \in 1..Len(uses) :
                      IsToolResult(m.content[k]) /\ m.content[k].tool_use_id = uses[k].id

\* C4 -- the returned messages are the prior session's messages, the prompt
\* message, and per turn the assistant message with the raw reply followed
\* by that turn's tool-result message.
ResultFor(id) == ToolResultBlock(id, OutcomeOf(id).content, ~OutcomeOf(id).ok)
TurnMessages(r) ==
    LET uses == ToolUses(r)
    IN  <<Msg("assistant", r)>>
        \o (IF uses = <<>> THEN <<>>
            ELSE <<Msg("user", [k \in 1..Len(uses) |-> ResultFor(uses[k].id)])>>)
RECURSIVE AllTurnMessages(_)
AllTurnMessages(log) ==
    IF log = <<>> THEN <<>> ELSE TurnMessages(Head(log)) \o AllTurnMessages(Tail(log))
C4_MessagesAreConcatenation ==
    (adapter = "anthropic" /\ epc = "returned") =>
        messages = InitialMessages(adapter, session) \o AllTurnMessages(turnsLog)

\* C6 -- a tool_use block naming a tool absent from the registry is fatal
\* for every adapter: the loop never moves past the block and no tool
\* result is built for it.
C6_UnknownToolIsFatal ==
    \A i \in 1..Len(response) :
        (IsToolUse(response[i]) /\ Find(response[i].name) = 0) =>
            /\ idx <= i
            /\ \A k \in 1..Len(toSend) :
                 IsToolResult(toSend[k]) => toSend[k].tool_use_id # response[i].id

\* C8 -- input rejected by a tool's checkParams never aborts the command.
C8_BadParamsRecoverable == ~(epc = "thrown" /\ failure = InvalidParams)

\* C9 -- when the command ends after createMessage returned, or after the
\* loop or the prompt/session handling threw, close() was called on every
\* client whose initialize() succeeded.
SetupFailures == {"connect failed", "listTools failed"}
AllInitializedClosed == \A c \in initialized : closeCalls[c] >= 1
C9_ClientsClosedOnExit ==
    (cpc = "exited" /\ failure \notin SetupFailures) => AllInitializedClosed

\* C10 -- when a connection attempt of the batch (initialize or listTools)
\* fails, every connection opened before is closed by the time the command
\* ends.
C10_BatchFailureClosesOpened ==
    (cpc = "exited" /\ failure \in SetupFailures) => AllInitializedClosed

\* C3 -- termination: once createMessage has begun, the loop ends (it
\* returns, or throws one of the fatal errors), and a provider request is
\* sent only as the first one or after a reply that asked for a tool.
C3_Termination ==
    /\ (epc = "request") ~> (epc \in {"returned", "thrown"})
    /\ [](epc = "thrown" => failure \in FatalCauses)
    /\ [][requests' # requests => (requests = 0 \/ ToolUses(response) # <<>>)]_vars
C3_Witness == epc = "returned" /\ requests >= 2 /\ ToolUses(response) = <<>>

\* C5 -- tool calls of one reply are invoked one at a time, in the order of
\* the reply: a call is started only when every earlier one has settled.
Invocable(b) ==
    IsToolUse(b) /\ Find(b.name) # 0 /\ ~describeInvocationThrows(b.name, b.input)
Begun == IF epc = "invoking" THEN idx ELSE idx - 1
C5_SequentialDispatch ==
    LET expected == SelectSeq(SubSeq(response, 1, Begun), Invocable)
        thisTurn == SelectSeq(settled, LAMBDA s : s.id \div 10 = requests)
    IN  /\ Cardinality(inflight) <= 1
        /\ inflight = IF epc = "invoking" THEN {response[idx].id} ELSE {}
        /\ started = [k \in 1..Len(expected) |-> expected[k].id]
        /\ \A k \in 1..(Len(started) - 1) : started[k] \in SettledIds
        /\ [k \in 1..Len(thisTurn) |-> thisTurn[k].id]
             = SubSeq(started, 1, Len(started) - Cardinality(inflight))
C5_Witness == epc = "invoking" /\ Len(started) = 2 /\ started[1] \in SettledIds

\* C7 -- a throwing tool.invoke is recoverable: a result with is_error and
\* the error message is built, the error does not abort the command, the
\* loop moves on to the later blocks of the reply, and the next provider
\* request carries the result.
HasErrorResult(ms, s) ==
    \E i \in 1..Len(ms) : \E k \in 1..Len(ms[i].content) :
        LET b == ms[i].content[k] IN
        IF adapter = "ollama" THEN ms[i].role = "tool" /\ b.text = s.content
        ELSE IsToolResult(b) /\ b.tool_use_id = s.id /\ IsError(b) /\ b.content = s.content
PendingErrorResult(s) ==
    \/ \E k \in 1..Len(toolResults) : toolResults[k].is_error /\ toolResults[k].content = s.content
    \/ \E k \in 1..Len(toSend) :
          IsToolResult(toSend[k]) /\ toSend[k].tool_use_id = s.id /\ IsError(toSend[k])
          /\ toSend[k].content = s.content
C7_ToolFailureRecoverable ==
    \A s \in Range(settled) : ~s.ok =>
        /\ HasErrorResult(messages, s) \/ PendingErrorResult(s)
        /\ failure # s.content
        /\ s.id \div 10 = requests => idx > s.id % 10
        /\ requests > s.id \div 10 => HasErrorResult(lastRequest.messages, s)
C7_Witness ==
    /\ requests = 2
    /\ \E s \in Range(settled) : \E t \in Range(settled) :
          ~s.ok /\ s.id \div 10 = 1 /\ t.id = s.id + 1

\* C11 -- cache marker bound: every request of Model.createMessageFromHistory
\* carries at most three markers in its messages, and its system-prompt
\* list carries exactly one marker, on its last segment.
RECURSIVE MarkerCount(_)
MarkerCount(ms) ==
    IF ms = <<>> THEN 0
    ELSE Len(SelectSeq(Head(ms).content, HasMarker)) + MarkerCount(Tail(ms))
LastBlockMarked(ms) ==
    /\ ms # <<>>
    /\ ms[Len(ms)].content # <<>>
    /\ HasMarker(ms[Len(ms)].content[Len(ms[Len(ms)].content)])
FileMarkers(file) ==
    IF file.exists /\ file.json
    THEN MarkerCount(file.value.state.messages)
         + Len(SelectSeq(file.value.state.systemPrompts, HasMarker))
    ELSE 0
C12_SavedFileUnmarked == FileMarkers(saved) = 0

\* C13 -- session round trip: the session loaded from the file that
\* saveSession wrote is the saved state with every cache marker removed
\* (same messages, roles and blocks in the same order, same system prompts).
StripAll(ms, sp) ==
    [present |-> TRUE,
     messages |-> [i \in 1..Len(ms) |->
                     Msg(ms[i].role, [j \in 1..Len(ms[i].content) |-> Unmarked(ms[i].content[j])])],
     systemPrompts |-> [i \in 1..Len(sp) |-> Unmarked(sp[i])]]
C13_RoundTrip ==
    (cpc = "reloaded" /\ sessionArg # "none") => session = StripAll(messages, systemPrompts)
C13_Witness ==
    /\ cpc = "reloaded"
    /\ session.present
    /\ MarkerCount(messages) >= 2
    /\ FileMarkers(saved) >= 1
    /\ \E i \in 1..Len(systemPrompts) : HasMarker(systemPrompts[i])

\* C14 -- loadSession is never fatal: without a path, without a file, with
\* a file that is no JSON or whose JSON fails the session schema it gives
\* undefined and the command goes on with a fresh session; it never throws
\* and gives a session only when the whole file is valid.
C14_LoadNeverFatal ==
    /\ failure # "session error"
    /\ epc # "idle" =>
         session = IF sessionArg = "existing" THEN StoredSession
                   ELSE IF sessionArg = "foreign" THEN ForeignSession ELSE NoSession
    /\ (requests = 1 /\ sessionArg \notin {"existing", "foreign"}) =>
         /\ Len(lastRequest.system) = 1 + Len(context)
         /\ turnStart <= 1
C14_Witness ==
    /\ sessionArg = "invalid"
    /\ saved = JSON_stringify(InvalidState)
    /\ session = NoSession
    /\ requests >= 1

Texts(sp) == [i \in 1..Len(sp) |-> sp[i].text]
C16_FirstRequest ==
    requests = 1 =>
        LET prior == IF session.present THEN session.messages ELSE <<>>
            priorSystem == IF session.present THEN session.systemPrompts
                           ELSE <<TextBlock(basePrompt)>>
            sent == SelectSeq(lastRequest.messages, LAMBDA m : m.role # "system")
            n == Len(sent)
        IN  /\ n = Len(prior) + 1
            /\ SubSeq(sent, 1, n - 1) = prior
            /\ sent[n].role = "user"
            /\ Len(sent[n].content) = 1
            /\ sent[n].content[1].text = prompt
            /\ Texts(lastRequest.system) = Texts(priorSystem) \o context
C16_Witness ==
    /\ requests = 1
    /\ session.present
    /\ Len(context) = 2

\* C17 -- no aliasing back into the caller's session: createMessage starts
\* from the session loadSession returned, and no step of createMessage or of
\* the loop changes the messages or the system prompts of that object.
C17_SessionUnchanged ==
    [][/\ (epc = "idle" /\ epc' # "idle") =>
             session' = loadSession(adapter, sessionArg, saved).session
       /\ epc # "idle" => session' = session]_vars
C17_Witness ==
    /\ adapter = "ollama"
    /\ epc = "returned"
    /\ session.present
    /\ "systemPrompts" \in createMessageAliases(session, context)
    /\ Len(systemPrompts) > Len(session.systemPrompts)

\* C18 -- ask mode only exposes read-only tools: the registry of ask mode
\* holds neither edit_file nor build, and every tool in it that is not a
\* base tool is advertised by a connected server and admitted by that
\* server's read-only allow-list; edit_file and build are registered in
\* edit mode only.
AdmittedReadOnly(t) ==
    \E i \in 1..Len(clients) :
        /\ InSeq(t, Advertised(clients[i]))
        /\ \/ Len(readOnlyTools(clients[i])) = 0
           \/ InSeq(t, readOnlyTools(clients[i]))
C18_AskModeReadOnly ==
    /\ mode = "ask" =>
          \A i \in 1..Len(tools) :
              /\ ~InSeq(tools[i], editTools)
              /\ InSeq(tools[i], baseTools) \/ AdmittedReadOnly(tools[i])
    /\ (\E i \in 1..Len(tools) : InSeq(tools[i], editTools)) => mode = "edit"
C18_Witness ==
    /\ mode = "ask"
    /\ Len(clients) = NumClients
    /\ Len(tools) > Len(baseTools)
    /\ epc = "returned"

\* C19 -- a system string returned by a tool becomes a trailing system-prompt
\* segment of the next request, for every adapter: the system prompts of each
\* provider request are the initial ones followed by the system strings of
\* the tools settled so far, in the order the calls were dispatched.
SettledSystems ==
    LET withSystem == SelectSeq(settled, LAMBDA s : s.system # "")
    IN  [i \in 1..Len(withSystem) |-> withSystem[i].system]
C19_SystemTextAppended ==
    [][requests' = requests + 1 =>
          Texts(lastRequest'.system) =
              Texts(InitialSystemPrompts(session, context)) \o SettledSystems]_vars

\* C20 -- text blocks are streamed as they are processed: the output sink
\* holds, for every block handled so far, in response order, the text of
\* each text block exactly once and the description of each invocation
\* started, so a text block is out before a later invocation of its reply
\* and before the next request.
RECURSIVE ExpectedOutput(_, _)
ExpectedOutput(n, i) ==
    IF n > requests THEN <<>>
    ELSE IF i > Len(turnsLog[n]) THEN ExpectedOutput(n + 1, 1)
    ELSE LET b == turnsLog[n][i]
             handled == n < requests \/ i < idx
         IN  IF b.type = "text"
             THEN (IF handled
                   THEN <<[type |-> "text", text |-> b.text, request |-> n]>> ELSE <<>>)
                  \o ExpectedOutput(n, i + 1)
             ELSE (IF b.id \in SettledIds \cup inflight
                   THEN <<[type |-> "invocation", id |-> b.id]>> ELSE <<>>)
                  \o ExpectedOutput(n, i + 1)
C20_TextStreamedInOrder == output = ExpectedOutput(1, 1)

\* C21 -- systemPrompts is never empty: every provider request carries at
\* least one system-prompt segment and so does the state createMessage
\* returns, for a fresh session and for every session load accepts.
C21_SystemPromptsNonEmpty ==
    /\ requests >= 1 => Len(lastRequest.system) >= 1
    /\ epc = "returned" => Len(systemPrompts) >= 1

\* C22 -- no dangling tool_use: in the history createMessage returns, and in
\* the session file a command writes from it, every tool_use block is
\* followed by a tool_result for it (Ollama's tool messages carry no id: the
\* k calls of a reply are followed by k tool messages), and the last message
\* is an assistant message without tool_use block.
Answered(ms, i) ==
    LET uses == ToolUses(ms[i].content)
    IN  IF adapter = "ollama"
        THEN /\ i + Len(uses) <= Len(ms)
             /\ \A k \in 1..Len(uses) : ms[i + k].role = "tool"
        ELSE \A u \in 1..Len(uses) :
                \E j \in (i + 1)..Len(ms) : \E k \in 1..Len(ms[j].content) :
                    /\ IsToolResult(ms[j].content[k])
                    /\ ms[j].content[k].tool_use_id = uses[u].id
Complete(ms) ==
    /\ Len(ms) >= 1
    /\ ms[Len(ms)].role = AssistantRole
    /\ ToolUses(ms[Len(ms)].content) = <<>>
    /\ \A i \in 1..Len(ms) : Answered(ms, i)
Written == epc = "returned" /\ cpc # "loop" /\ failure = "" /\ sessionArg # "none"
C22_NoDanglingToolUse ==
    /\ epc = "returned" => Complete(messages)
    /\ Written => Complete(saved.value.state.messages)
C22_Witness ==
    /\ Written
    /\ requests >= 2
    /\ \E n \in 1..Len(turnsLog) : Len(ToolUses(turnsLog[n])) = 2
    /\ \E s \in Range(settled) : ~s.ok

\* C23 -- a failing provider call is fatal, with no retry: once a provider
\* request has thrown, no further request is sent, no tool is started or
\* settled, the history stays as it was, and the command ends in its catch
\* clause with that error and a non-zero exit status.
C23_ProviderFailureFatal ==
    /\ [][failure = "provider error" =>
            /\ requests' = requests
            /\ started' = started
            /\ settled' = settled
            /\ inflight' = inflight
            /\ messages' = messages
            /\ failure' = failure]_vars
    /\ (failure = "provider error") ~> (cpc = "exited" /\ exit = "fail")
    /\ [](failure = "provider error" => exit \in {"running", "fail"})
C23_Witness ==
    /\ failure = "provider error"
    /\ exit = "fail"
    /\ requests >= 1
    /\ settled # <<>>

\* C24 -- no access outside the workspace root: for every path that resolves
\* to a location not inside the root directory, read_file, list_dir and
\* edit_file throw "Access denied" without touching the file system, the
\* tool result carries the error flag and the loop goes on to the next
\* request.
InsideRoot(location) ==
    LET root == Segments(workspaceRoot)
        segs == Segments(location)
    IN  Len(segs) >= Len(root) /\ SubSeq(segs, 1, Len(root)) = root
Location(rel) == path_normalize(workspaceRoot \o <<"/">> \o rel)
CallOf(id) == CHOOSE b \in Range(response) : b.id = id
C24_NoAccessOutsideRoot ==
    \A s \in Range(settled) :
        ~InsideRoot(Location(CallOf(s.id).input)) =>
            /\ s.accessed = {}
            /\ ~s.ok
            /\ s.content = "Access denied"
            /\ epc # "returned"

\* C25 -- tool lookup by name: the registry keeps every registered tool, also
\* those sharing a name (local tools, then the edit tools, then the tools of
\* each server in connection order), and a tool call is dispatched to the
\* first entry of that name in registration order.
Registered ==
    baseTools \o (IF mode = "edit" THEN editTools ELSE <<>>)
    \o (IF Len(clients) >= 1 THEN Advertised(clients[1]) ELSE <<>>)
    \o (IF Len(clients) >= 2 THEN Advertised(clients[2]) ELSE <<>>)
    \o (IF Len(clients) >= 3 THEN Advertised(clients[3]) ELSE <<>>)
C25_FirstMatchWins ==
    /\ tools # <<>> => tools = Registered
    /\ \A s \in Range(settled) :
          LET name == (CHOOSE b \in UNION {Range(turnsLog[n]) : n \in 1..Len(turnsLog)} :
                          b.type = "tool_use" /\ b.id = s.id).name
          IN  /\ s.tool \in 1..Len(tools)
              /\ tools[s.tool] = name
              /\ \A j \in 1..(s.tool - 1) : tools[j] # name
C25_Witness ==
    /\ Cardinality({i \in 1..Len(tools) : tools[i] = "read_file"}) >= 2
    /\ \E s \in Range(settled) : s.tool = 1 /\ s.ok

\* C26 -- a tool without native definition for a backend is left out of the
\* declarations sent to it: an Ollama request declares the local tools (the
\* servers' tools have no ollama definition), a Gemini request the local
\* tools but edit_file, and every declared name is one the lookup finds.
C26_DeclaredTools ==
    requests >= 1 =>
        /\ adapter = "ollama" => lastRequest.tools = LocalTools(mode)
        /\ adapter = "gemini" =>
              lastRequest.tools = SelectSeq(LocalTools(mode), LAMBDA t : t # "edit_file")
        /\ \A k \in 1..Len(lastRequest.tools) :
              /\ Find(lastRequest.tools[k]) # 0
              /\ tools[Find(lastRequest.tools[k])] = lastRequest.tools[k]
C26_Witness ==
    /\ adapter = "gemini"
    /\ requests >= 2
    /\ InSeq("edit_file", tools)
    /\ InSeq("hover", tools)
    /\ Len(lastRequest.tools) = Len(tools) - 1 - Len(ClientTools(clients, mode))

\* C27 -- continuation rule: when a turn is over the loop goes on to another
\* provider request if and only if the reply had a tool dispatched; so a run
\* that returns after n tool-using turns has sent n + 1 requests, and every
\* request carries the replies and the tool results of all earlier turns.
RECURSIVE ToolUseCount(_, _)
ToolUseCount(log, k) ==
    IF k = 0 THEN 0 ELSE Len(ToolUses(log[k])) + ToolUseCount(log, k - 1)
ResultCount(ms) ==
    LET Results(m) == IF m.role = "tool" THEN 1 ELSE Len(ToolResultsOf(m.content))
        sums[i \in 0..Len(ms)] == IF i = 0 THEN 0 ELSE sums[i - 1] + Results(ms[i])
    IN  sums[Len(ms)]
C27_ContinuationRule ==
    requests >= 1 =>
        LET prior == IF session.present THEN session.messages ELSE <<>>
            IsReply(m) == m.role = AssistantRole
            replies == SelectSeq(lastRequest.messages, IsReply)
            before == Len(SelectSeq(prior, IsReply))
        IN  /\ \A k \in 1..(requests - 1) : ToolUses(turnsLog[k]) # <<>>
            /\ Len(replies) = before + requests - 1
            /\ \A k \in 1..(requests - 1) : replies[before + k].content = turnsLog[k]
            /\ ResultCount(lastRequest.messages) = ToolUseCount(turnsLog, requests - 1)
            /\ epc = "returned" => ToolUses(turnsLog[requests]) = <<>>
            /\ epc = "request" => ToolUses(turnsLog[requests]) # <<>>
C27_Witness ==
    /\ epc = "returned"
    /\ requests = 2
    /\ Len(ToolUses(turnsLog[1])) = 2
    /\ session.present

\* The token estimate of the text and tool-input content after the most
\* recent marker: the non-whitespace characters of the whole range, divided
\* by 4 and rounded up
Flat(ms) ==
    LET pm == [i \in 1..Len(ms) |-> ArrayContent(ms[i])]
        flat[i \in 0..Len(pm)] == IF i = 0 THEN <<>> ELSE flat[i - 1] \o pm[i].content
    IN  flat[Len(pm)]
CharsSinceLastMarker(ms) ==
    LET bs == Flat(ms)
        marked == {i \in 1..Len(bs) : HasMarker(bs[i])}
        from == IF marked = {} THEN 1
                ELSE 1 + CHOOSE i \in marked : \A j \in marked : j <= i
        Chars(b) == IF b.type = "text" THEN b.text.chars
                    ELSE IF b.type = "tool_use" THEN b.input.chars ELSE 0
        sums[i \in (from - 1)..Len(bs)] == IF i = from - 1 THEN 0 ELSE sums[i - 1] + Chars(bs[i])
    IN  sums[Len(bs)]
TokensSinceLastMarker(ms) == (CharsSinceLastMarker(ms) + 3) \div 4
Normalized(ms) == [i \in 1..Len(ms) |-> ArrayContent(ms[i])]
MarkedLast(ms) ==
    LET n == Len(ms)
        k == Len(ms[n].content)
    IN  SetBlock(ms, n, k, Ephemeral @@ ms[n].content[k])

\* C28 -- add policy: with no marker in the history and more than 1024
\* tokens since the last marker, or with one or two markers and more than
\* 2048, the request is the history with a marker added on the last block of
\* the last message; with fewer than three markers and the threshold not
\* exceeded the request is the history, no marker added or removed.
C28_AddPolicy ==
    requests = 1 =>
        LET count == MarkerCount(messages)
            tokens == TokensSinceLastMarker(messages)
            exceeded == \/ count = 0 /\ tokens > 1024
                        \/ count \in 1..2 /\ tokens > 2048
        IN  count < 3 =>
               lastRequest.messages = IF exceeded THEN MarkedLast(Normalized(messages))
                                      ELSE Normalized(messages)

\* C29 -- move policy: with three or more markers in the history the most
\* recent one is deleted and the last block of the last message is marked,
\* so the request holds as many markers as the history did; this also holds
\* when the most recent marker already is on that last block.
LastMarker(ms) ==
    LET marked == {p \in (1..Len(ms)) \X (1..MaxHistory) :
                      p[2] <= Len(ms[p[1]].content) /\ HasMarker(ms[p[1]].content[p[2]])}
    IN  CHOOSE p \in marked :
            \A q \in marked : q[1] < p[1] \/ (q[1] = p[1] /\ q[2] <= p[2])
C29_MovePolicy ==
    (requests = 1 /\ MarkerCount(messages) >= 3) =>
        LET pm == Normalized(messages)
            p == LastMarker(pm)
            deleted == SetBlock(pm, p[1], p[2], Unmarked(pm[p[1]].content[p[2]]))
        IN  /\ lastRequest.messages = MarkedLast(deleted)
            /\ MarkerCount(lastRequest.messages) = MarkerCount(messages)
C29_Witness ==
    /\ requests = 1
    /\ MarkerCount(messages) = 3
    /\ ~LastBlockMarked(messages)
    /\ LastBlockMarked(lastRequest.messages)
    /\ output[1].case = 3
    /\ output[1].tokensSinceLastMarker > 1024

\* C30 -- token estimate: the tokens since the last marker are the
\* non-whitespace characters of all text and tool-input content after the
\* most recent marked block, divided by 4 and rounded up once.
C30_TokenEstimate ==
    requests = 1 => output[1].tokensSinceLastMarker = TokensSinceLastMarker(messages)

\* C31 -- MCPClient.getTools exposes exactly the advertised tools whose name
\* is in the client's allow-list, in the server's order; with an empty
\* allow-list it exposes every advertised tool.
C31_AllowList ==
    cpc = "createMessage" =>
        LET advertised == Advertised(clients[1].id)
            allowed == Range(clients[1].allowedTools)
            kept == {i \in 1..Len(advertised) : allowed = {} \/ advertised[i] \in allowed}
            Rank(i) == Cardinality({j \in kept : j <= i})
        IN  /\ Len(tools) = Cardinality(kept)
            /\ \A i \in kept : tools[Rank(i)] = advertised[i]
C31_Witness ==
    /\ cpc = "createMessage"
    /\ Len(clients[1].allowedTools) = 2
    /\ Len(tools) = 1
    /\ Len(Advertised(clients[1].id)) = 2

\* C32 -- the session file is written only after the loop has reached its
\* terminal state: the file changes only in the step that follows
\* createMessage's return, and when prompt acquisition, tool setup, session
\* loading or createMessage has thrown, the file at the session path keeps
\* the content it had before the command.
ThrewBeforeSave == failure \notin {"", "write failed", "close failed"}
Reloaded == loadSession(adapter, "existing", saved).session
SameRoles(ms, ns) ==
    /\ Len(ms) = Len(ns)
    /\ \A i \in 1..Len(ms) : ms[i].role = ns[i].role
C33_Resumable ==
    Written => /\ Reloaded.present
               /\ SameRoles(Reloaded.messages, messages)

\* C34 -- for the backends that return tool calls as a separate list (Ollama,
\* Gemini), a turn with k function calls feeds exactly k tool responses back
\* to the model, one per call in call order, and each response names its
\* call by id or by name, so that it can be matched without counting
\* positions.
FedBack ==
    IF adapter = "ollama" THEN SubSeq(messages, turnStart + 2, Len(messages))
    ELSE SelectSeq(toSend, IsToolResult)
NamesCall(resp, call) ==
    \/ "tool_use_id" \in DOMAIN resp /\ resp.tool_use_id = call.id
    \/ "name" \in DOMAIN resp /\ resp.name = call.name
OneResponsePerCall ==
    /\ Len(FedBack) = Len(ToolUses(response))
    /\ adapter = "ollama" => \A i \in 1..Len(FedBack) : FedBack[i].role = "tool"
AfterToolTurn ==
    /\ adapter \in {"ollama", "gemini"}
    /\ cpc = "loop"
    /\ epc = "request"
    /\ requests >= 1
C34_ResponsesMatchCalls ==
    AfterToolTurn =>
        /\ OneResponsePerCall
        /\ \A i \in 1..Len(FedBack) : NamesCall(FedBack[i], ToolUses(response)[i])

\* C35 -- when the cleanup function has run, close() has been called exactly
\* once on every client the function was built with, also when the close()
\* of an earlier client rejected.
CleanupRan == cpc = "exited" /\ exit \in {"ok", "crash"}
ClosedOnce == \A i \in 1..Len(cleanup) : closeCalls[cleanup[i]] = 1
C35_CleanupClosesAll == CleanupRan => ClosedOnce

\* C36 -- getPrompt returns a non-empty prompt or throws.  The piped stdin
\* text is the prompt when it is not empty (the text is taken without its
\* surrounding whitespace, and a text of whitespace alone counts as empty);
\* otherwise the command argument when one is given; otherwise the text
\* written in the editor.  When all three are empty getPrompt throws "No
\* prompt provided via stdin, argument, or editor", and after a throw of
\* getPrompt no provider request is sent.
Blank(t) == \A i \in 1..Len(t) : t[i] = " "
Core(t, p) ==
    /\ p # <<>>
    /\ p[1] # " "
    /\ p[Len(p)] # " "
    /\ \E k \in 0..(Len(t) - Len(p)) :
          /\ SubSeq(t, k + 1, k + Len(p)) = p
          /\ \A i \in 1..Len(t) : (i <= k \/ i > k + Len(p)) => t[i] = " "
PromptFailures == {NoPromptProvided, EditorFailed("nonzero"), EditorFailed("spawn")}
StdinEmpty == io.stdin.isTTY \/ Blank(io.stdin.text)
ArgumentEmpty == ~io.questionArg.given \/ io.questionArg.text = <<>>
EditorEmpty == io.editor = <<CloseEvent(0)>> /\ Blank(io.written)
PromptReturned == io.pc = "done" /\ failure \notin PromptFailures
C36_PromptPrecedence ==
    /\ PromptReturned =>
          /\ io.prompt # <<>>
          /\ IF ~StdinEmpty THEN Core(io.stdin.text, io.prompt)
             ELSE IF ~ArgumentEmpty THEN io.prompt = io.questionArg.text
             ELSE io.editor = <<CloseEvent(0)>> /\ Core(io.written, io.prompt)
    /\ (io.pc = "done" /\ StdinEmpty /\ ArgumentEmpty /\ EditorEmpty) => failure = NoPromptProvided
    /\ failure = NoPromptProvided => (StdinEmpty /\ ArgumentEmpty /\ EditorEmpty)
    /\ failure \in PromptFailures => (requests = 0 /\ epc = "idle")
C36_Witness ==
    /\ failure = NoPromptProvided
    /\ exit = "fail"
    /\ io.stdin = [isTTY |-> FALSE, text |-> <<" ", " ">>]
    /\ io.questionArg.given
    /\ io.written = <<" ">>
    /\ io.unlinkCalls = 1

\* C38 -- for every editor outcome (exit code 0, a non-zero exit code, a
\* spawn error, a spawn error followed by a 'close' event), once the
\* editor's events are delivered getPromptFromEditor has removed its
\* temporary file exactly once and settled its promise exactly once, and no
\* handler has thrown.
EditorOver == io.pc \in {"editor", "done"} /\ io.tmpFile # "none" /\ io.events = <<>>
C38_EditorCleanup ==
    EditorOver =>
        /\ io.tmpFile = "removed"
        /\ io.unlinkCalls = 1
        /\ Len(io.settles) = 1
        /\ ~io.threw

\* C37 -- spawnAsync settles its promise at most once whatever the order of
\* the child's 'error', 'exit' and 'data' events, and when it resolves, the
\* stdout and stderr invoke receives hold everything the child wrote: no
\* chunk delivered after 'exit' is missing.
AllDelivered ==
    /\ io.pending.stdout = <<>>
    /\ io.pending.stderr = <<>>
    /\ ~io.pending.exit
    /\ ~io.pending.error
SettledAtMostOnce == Len(io.settles) <= 1
C37_SpawnAsync ==
    /\ SettledAtMostOnce
    /\ (io.handed.how = "resolved" /\ AllDelivered) =>
          /\ io.handed.stdout = io.wrote.stdout
          /\ io.handed.stderr = io.wrote.stderr

====
